---- MODULE Spec2Model ----
(***************************************************************************)
(* Model of rust-cli/src/path_validator.rs: the allowlist of user-selected *)
(* directories and validate_path, over a small Unix filesystem.            *)
(*                                                                         *)
(* A path string is a sequence of one-character strings; a file name is    *)
(* such a sequence without "/"; a canonical path is the sequence of the    *)
(* names from the root (<< >> is "/").                                      *)
(***************************************************************************)
EXTENDS Integers, Sequences, FiniteSets, TLC

\* ------------------------------------------------------------------ bounds

\* Longest input path, in segments.
MaxSegs == 2

\* Symbolic links followed in one resolution before it fails (ELOOP).
MaxLinks == 2

\* ------------------------------------------------------------------ names

nA == <<"A">>
nB == <<"B">>
nF == <<"f">>
nG == <<"g">>
nL == <<"l">>
nN == <<"n">>
Dot == <<".">>
DotDot == <<".", ".">>
\* "%2e%2e"
EncDots == <<"%", "2", "e", "%", "2", "e">>
\* "..%2F"
EncSlash == <<".", ".", "%", "2", "F">>
\* "..\"
BackSlash == <<".", ".", "\\">>
\* "a..b"
DotsInName == <<"a", ".", ".", "b">>

\* ------------------------------------------------------------------ strings

\* str::to_lowercase, on the characters the inputs use.
ToLowerChar(c) ==
    CASE c = "A" -> "a"
      [] c = "B" -> "b"
      [] c = "E" -> "e"
      [] c = "F" -> "f"
      [] c = "C" -> "c"
      [] c = "D" -> "d"
      [] c = "O" -> "o"
      [] c = "P" -> "p"
      [] c = "R" -> "r"
      [] c = "S" -> "s"
      [] c = "T" -> "t"
      [] c = "U" -> "u"
      [] c = "Y" -> "y"
      [] OTHER -> c

ToLowercase(s) == [i \in 1..Len(s) |-> ToLowerChar(s[i])]

\* str::contains: pat occurs in s as a contiguous substring.
Contains(s, pat) ==
    \E i \in 1..(Len(s) - Len(pat) + 1) : SubSeq(s, i, i + Len(pat) - 1) = pat

\* The segments of a path string: the non-empty pieces between "/".
RECURSIVE SplitFrom(_, _, _)
SplitFrom(s, i, cur) ==
    IF i > Len(s) THEN (IF cur = << >> THEN << >> ELSE <<cur>>)
    ELSE IF s[i] = "/"
         THEN (IF cur = << >> THEN << >> ELSE <<cur>>) \o SplitFrom(s, i + 1, << >>)
         ELSE SplitFrom(s, i + 1, Append(cur, s[i]))

\* Path::new: a path string seen as (has a root, raw segments).
ParsePath(s) ==
    [root |-> (Len(s) > 0 /\ s[1] = "/"), segs |-> SplitFrom(s, 1, << >>)]

\* The path string of segments joined with "/", with a leading "/" if rooted.
RECURSIVE JoinSegs(_)
JoinSegs(segs) ==
    IF segs = << >> THEN << >>
    ELSE IF Len(segs) = 1 THEN segs[1]
    ELSE segs[1] \o <<"/">> \o JoinSegs(Tail(segs))

PathString(root, segs) == (IF root THEN <<"/">> ELSE << >>) \o JoinSegs(segs)

\* Path::components: "." is dropped except at the head of a relative path;
\* the result lists the names of the components after the root.
Components(p) ==
    LET noDots(segs) == SelectSeq(segs, LAMBDA s : s # Dot)
    IN  IF ~p.root /\ p.segs # << >> /\ Head(p.segs) = Dot
        THEN <<Dot>> \o noDots(Tail(p.segs))
        ELSE noDots(p.segs)

\* Path::parent: the components without the last one; none for "/" and "".
HasParent(p) == Components(p) # << >>

Parent(p) ==
    LET c == Components(p) IN [root |-> p.root, segs |-> SubSeq(c, 1, Len(c) - 1)]

\* Path::file_name: the last component when it is a normal one.
HasFileName(p) ==
    LET c == Components(p) IN
    c # << >> /\ c[Len(c)] # DotDot /\ c[Len(c)] # Dot

FileName(p) == LET c == Components(p) IN c[Len(c)]

Range(seq) == { seq[i] : i \in 1..Len(seq) }

\* Path::starts_with: whole components of base are a prefix of those of path.
StartsWith(path, base) ==
    Len(base) <= Len(path) /\ SubSeq(path, 1, Len(base)) = base

\* ------------------------------------------------------------------ filesystem

\* The current directory of the process.
Cwd == <<nA>>

\* /A/f, /A/l -> target, /B/g
FileSystem(target) ==
    (<< >> :> [kind |-> "dir", target |-> << >>])
    @@ (<<nA>> :> [kind |-> "dir", target |-> << >>])
    @@ (<<nA, nF>> :> [kind |-> "file", target |-> << >>])
    @@ (<<nA, nL>> :> [kind |-> "link", target |-> target])
    @@ (<<nB>> :> [kind |-> "dir", target |-> << >>])
    @@ (<<nB, nG>> :> [kind |-> "file", target |-> << >>])

\* Where /A/l may point: a file beside it (relative), a file in /B, a name
\* in /B that does not exist.
LinkTargets ==
    { PathString(FALSE, <<nF>>),
      PathString(TRUE, <<nB, nG>>),
      PathString(TRUE, <<nB, nN>>) }

FileSystems == { FileSystem(t) : t \in LinkTargets }

Failed == [ok |-> FALSE, path |-> << >>]

\* realpath: walk the raw segments from cur, following every symbolic link;
\* fails on a missing name, on a non-directory in the middle, on too many links.
RECURSIVE Walk(_, _, _, _)
Walk(f, cur, segs, fuel) ==
    IF segs = << >> THEN [ok |-> TRUE, path |-> cur]
    ELSE LET s == Head(segs)
             rest == Tail(segs)
             child == Append(cur, s)
         IN  IF f[cur].kind # "dir" THEN Failed
             ELSE IF s = Dot THEN Walk(f, cur, rest, fuel)
             ELSE IF s = DotDot
                  THEN Walk(f, SubSeq(cur, 1, Len(cur) - 1), rest, fuel)
             ELSE IF child \notin DOMAIN f THEN Failed
             ELSE IF f[child].kind = "link"
                  THEN IF fuel = 0 \/ f[child].target = << >> THEN Failed
                       ELSE LET t == ParsePath(f[child].target)
                            IN  Walk(f, IF t.root THEN << >> ELSE cur,
                                     t.segs \o rest, fuel - 1)
             ELSE Walk(f, child, rest, fuel)

\* Path::canonicalize
Canonicalize(f, p) ==
    IF ~p.root /\ p.segs = << >> THEN Failed
    ELSE Walk(f, IF p.root THEN << >> ELSE Cwd, p.segs, MaxLinks)

\* fs::symlink_metadata(..).file_type().is_symlink(): the last segment itself,
\* not followed, is a symbolic link.
IsSymlink(f, p) ==
    /\ p.segs # << >>
    /\ p.segs[Len(p.segs)] \notin {Dot, DotDot}
    /\ LET dir == Walk(f, IF p.root THEN << >> ELSE Cwd,
                       SubSeq(p.segs, 1, Len(p.segs) - 1), MaxLinks)
           node == Append(dir.path, p.segs[Len(p.segs)])
       IN  dir.ok /\ node \in DOMAIN f /\ f[node].kind = "link"

\* fs::read_link on a path IsSymlink holds of.
ReadLink(f, p) ==
    LET dir == Walk(f, IF p.root THEN << >> ELSE Cwd,
                    SubSeq(p.segs, 1, Len(p.segs) - 1), MaxLinks)
    IN  [ok |-> TRUE, target |-> f[Append(dir.path, p.segs[Len(p.segs)])].target]

\* ------------------------------------------------------------------ PathValidator

VARIABLES
    fs,                 \* the filesystem: canonical path -> node
    enforce_allowlist,  \* PathValidator.enforce_allowlist
    allowed_dirs,       \* PathValidator.allowed_dirs
    last,               \* the last call: operation, argument, result
    ipc,                \* the last plugin message handled and its response
    rwlock,             \* the RwLock around allowed_dirs: who holds it
    threads,            \* concurrent callers of the validator: where each one is
    guard,              \* the ReadOnlyLock that is alive, if any
    sys,                \* loop devices, mounts and temporary directories of the host
    acq,                \* the last acquire or release, its result and what it ran
    tok,                \* a plugin token and the verdict validate_plugin_token gave
    proc,               \* the last start of the program: its inputs and what it did
    ro,                 \* the last open_readonly or check_write call and its result
    run,                \* the last analysis run: its inputs and what it did, in order
    disk,               \* what the runs did to the files: created, overwritten
    rd,                 \* the last plugin message that reads files, and what it read
    srv,                \* the plugin server: where it is, lines read, responses written
    tui                 \* the App of the terminal interface, and the last call on it

ipcVars == <<ipc>>

\* The state outside the validator and its filesystem.
rwVars == <<rwlock, threads>>

\* The state outside the plugin messages and the sequential validator.
lockVars == <<guard, sys, acq>>

mainVars == <<tok, proc>>

\* The state of the command-line program around the two components.
guardVars == <<ro>>

runVars == <<run, disk>>

\* The state of the front ends: plugin server, terminal interface.
frontVars == <<rd, srv, tui>>

appVars == <<mainVars, guardVars, runVars, frontVars>>

outside_ipc == <<rwVars, lockVars, appVars>>

outside_validator == <<ipcVars, outside_ipc>>

vars == <<fs, enforce_allowlist, allowed_dirs, last, outside_validator>>

Result(kind, out) == [kind |-> kind, out |-> out]

SuspiciousPatterns ==
    { <<".", ".", "/">>,
      <<".", ".", "\\">>,
      <<"/", ".", ".">>,
      <<"\\", ".", ".">>,
      <<"%", "2", "e", "%", "2", "e">>,
      <<".", ".", "%", "2", "f">>,
      <<".", ".", "%", "5", "c">> }

\* check_path_traversal without the scan of the components.
check_path_traversal_strings_only(path_str) ==
    /\ Contains(path_str, <<".", ".">>)
    /\ \E pattern \in SuspiciousPatterns :
         Contains(ToLowercase(path_str), pattern)

\* check_path_traversal: TRUE when the path is rejected.
check_path_traversal(path_str) ==
    \/ DotDot \in Range(Components(ParsePath(path_str)))
    \/ /\ Contains(path_str, <<".", ".">>)
       /\ \E pattern \in SuspiciousPatterns :
            Contains(ToLowercase(path_str), pattern)

\* Step 2 that never follows the last segment: the canonical parent joined
\* with the file name.
canonical_of_nofollow(f, path_str) ==
    LET path == ParsePath(path_str)
    IN  IF HasParent(path) /\ HasFileName(path) /\ Canonicalize(f, Parent(path)).ok
        THEN Result("Ok", Append(Canonicalize(f, Parent(path)).path, FileName(path)))
        ELSE IF Canonicalize(f, path).ok
             THEN Result("Ok", Canonicalize(f, path).path)
             ELSE Result("IoError", << >>)

\* Step 2 whose fallback joins the file name to the parent as it was written,
\* without resolving it.
canonical_of_raw_parent(f, path_str) ==
    LET path == ParsePath(path_str)
        direct == Canonicalize(f, path)
    IN  IF direct.ok THEN Result("Ok", direct.path)
        ELSE IF HasParent(path)
             THEN IF Canonicalize(f, Parent(path)).ok
                  THEN IF HasFileName(path)
                       THEN Result("Ok", path.segs)
                       ELSE Result("InvalidPath", << >>)
                  ELSE Result("IoError", << >>)
             ELSE Result("IoError", << >>)

\* Step 2 of validate_path: the canonical path, or through the parent when the
\* path itself does not resolve.
canonical_of(f, path_str) ==
    LET path == ParsePath(path_str)
        direct == Canonicalize(f, path)
    IN  IF direct.ok THEN Result("Ok", direct.path)
        ELSE IF HasParent(path)
             THEN LET parent_canonical == Canonicalize(f, Parent(path))
                  IN  IF parent_canonical.ok
                      THEN IF HasFileName(path)
                           THEN Result("Ok", Append(parent_canonical.path, FileName(path)))
                           ELSE Result("InvalidPath", << >>)
                      ELSE Result("IoError", << >>)
             ELSE Result("IoError", << >>)

\* validate_symlink: for a path that is itself a symbolic link, read the link;
\* fs::read_link succeeds on every link of this filesystem.
validate_symlink(f, path_str) ==
    IF IsSymlink(f, ParsePath(path_str))
    THEN (IF ReadLink(f, ParsePath(path_str)).ok THEN "Ok" ELSE "IoError")
    ELSE "Ok"

\* check_allowed_directory that accepts only the allowed entries themselves.
check_allowed_directory_exact(dirs, canonical_path) ==
    IF dirs = {} THEN "NoAllowedDirectories"
    ELSE IF canonical_path \in dirs THEN "Ok"
         ELSE "NotInAllowedDirectory"

\* check_allowed_directory with the arguments of starts_with exchanged.
check_allowed_directory_reversed(dirs, canonical_path) ==
    IF dirs = {} THEN "NoAllowedDirectories"
    ELSE IF \E allowed_dir \in dirs : StartsWith(allowed_dir, canonical_path)
         THEN "Ok"
         ELSE "NotInAllowedDirectory"

\* check_allowed_directory that lets everything through an empty allowlist.
check_allowed_directory_fail_open(dirs, canonical_path) ==
    IF dirs = {} \/ \E allowed_dir \in dirs : StartsWith(canonical_path, allowed_dir)
    THEN "Ok"
    ELSE "NotInAllowedDirectory"

\* check_allowed_directory where an entry also covers what lies beside it in
\* its parent directory.
check_allowed_directory_siblings(dirs, canonical_path) ==
    IF dirs = {} THEN "NoAllowedDirectories"
    ELSE IF \E allowed_dir \in dirs :
                \/ StartsWith(canonical_path, allowed_dir)
                \/ /\ allowed_dir # << >>
                   /\ StartsWith(canonical_path,
                                 SubSeq(allowed_dir, 1, Len(allowed_dir) - 1))
         THEN "Ok"
         ELSE "NotInAllowedDirectory"

\* check_allowed_directory; its second test (the entry is a file and equal to
\* the path) accepts nothing the first does not.
check_allowed_directory(dirs, canonical_path) ==
    IF dirs = {} THEN "NoAllowedDirectories"
    ELSE IF \E allowed_dir \in dirs :
                StartsWith(canonical_path, allowed_dir) \/ canonical_path = allowed_dir
         THEN "Ok"
         ELSE "NotInAllowedDirectory"

\* validate_path that consults the allowlist before anything else.
validate_path_allowlist_first(f, dirs, enforce, path_str) ==
    IF enforce /\ dirs = {} THEN Result("NoAllowedDirectories", << >>)
    ELSE IF check_path_traversal(path_str) THEN Result("PathTraversal", << >>)
    ELSE LET canonical == canonical_of(f, path_str)
         IN  IF canonical.kind # "Ok" THEN canonical
             ELSE IF enforce /\ check_allowed_directory(dirs, canonical.out) # "Ok"
                  THEN Result(check_allowed_directory(dirs, canonical.out), << >>)
             ELSE canonical

\* validate_path that checks the allowlist whatever enforce_allowlist says.
validate_path_always_enforcing(f, dirs, enforce, path_str) ==
    IF check_path_traversal(path_str) THEN Result("PathTraversal", << >>)
    ELSE LET canonical == canonical_of(f, path_str)
         IN  IF canonical.kind # "Ok" THEN canonical
             ELSE IF check_allowed_directory(dirs, canonical.out) # "Ok"
                  THEN Result(check_allowed_directory(dirs, canonical.out), << >>)
             ELSE canonical

\* validate_path
validate_path(f, dirs, enforce, path_str) ==
    IF check_path_traversal(path_str) THEN Result("PathTraversal", << >>)
    ELSE LET canonical == canonical_of(f, path_str)
         IN  IF canonical.kind # "Ok" THEN canonical
             ELSE IF validate_symlink(f, path_str) # "Ok"
                  THEN Result(validate_symlink(f, path_str), << >>)
             ELSE IF enforce /\ check_allowed_directory(dirs, canonical.out) # "Ok"
                  THEN Result(check_allowed_directory(dirs, canonical.out), << >>)
             ELSE canonical

\* ------------------------------------------------------------------ inputs

\* The segments an input path may end in.
Segs == { nA, nB, nF, nG, nL, nN, Dot, DotDot,
          EncDots, EncSlash, BackSlash, DotsInName }

\* The segments an input path may pass through.
PrefixSegs == { nA, nB, DotDot }

SegLists ==
    { << >> } \cup
    UNION { { Append(pre, s) : pre \in [1..k -> PrefixSegs], s \in Segs }
            : k \in 0..(MaxSegs - 1) }

\* The path strings handed to validate_path.
Inputs == { PathString(root, segs) : root \in BOOLEAN, segs \in SegLists }

\* The paths a user selects as allowed directories.
DirInputs ==
    { PathString(TRUE, <<nA>>),
      PathString(TRUE, <<nB>>),
      PathString(TRUE, <<nA, nL>>),
      PathString(TRUE, <<nN>>) }

\* ------------------------------------------------------------------ operations

\* No plugin message handled yet.
IpcIdle ==
    ipc = [action |-> "none", present |-> FALSE, payload |-> << >>,
           success |-> TRUE, error |-> "", validated |-> << >>,
           analyzed |-> << >>, failed |-> << >>]

\* PathValidator::new and PathValidator::new_permissive
\* Number of concurrent callers.
NumThreads == 2

Threads == 1..NumThreads

\* A caller that is in no operation.
Idle == [pc |-> "idle", canonical |-> << >>, snap |-> {}, result |-> ""]

\* No caller in an operation, the lock free.
RwIdle ==
    /\ rwlock = [writer |-> {}, readers |-> {}]
    /\ threads = [t \in Threads |-> Idle]

\* Option::None and Option::Some, as sets with at most one member.
None == {}

Some(x) == {x}

\* A path no lock is held on.
NoTarget == [name |-> << >>, type |-> "none"]

\* No ReadOnlyLock alive.
NoGuard ==
    [held |-> FALSE, path |-> NoTarget, lock_level |-> "none",
     loop_device |-> None, mount_point |-> None, is_active |-> FALSE]

\* The command ran and succeeded.
Succeeded == [spawned |-> TRUE, success |-> TRUE, stderr |-> << >>, cause |-> "none"]

\* No lock alive, nothing set up on the host, nothing run yet.
LockIdle ==
    /\ guard = NoGuard
    /\ sys = [loops |-> {}, tempdirs |-> {}, mounts |-> {}]
    /\ acq = [op |-> "none", target |-> NoTarget, result |-> "Ok",
              lock_level |-> "none", outcome |-> Succeeded, log |-> << >>,
              lock |-> NoGuard, before |-> sys, panicked |-> FALSE]

\* The program not started.
NotStarted ==
    [started |-> FALSE, plugin_mode |-> FALSE, mode |-> "cli",
     plugin_token |-> None, environment |-> << >>, cloud |-> FALSE,
     disable_auth |-> None, events |-> << >>, exit |-> "none"]

\* No token looked at, the program not started.
MainIdle ==
    /\ tok = [token |-> << >>, verdict |-> "none", first |-> "none", calls |-> 0]
    /\ proc = NotStarted

\* No file opened through a lock, no write checked.
GuardIdle ==
    ro = [op |-> "none", lock |-> << >>, locked |-> {}, path |-> << >>,
          kind |-> "none", handle |-> None, access |-> {}]

\* No analysis run yet, the files as they were.
RunIdle ==
    /\ run = [mode |-> "none", source |-> << >>, dest |-> << >>, ro_lock |-> FALSE,
              events |-> << >>, result |-> "none"]
    /\ disk = [created |-> {}, overwritten |-> {}]

\* No plugin message that reads files handled yet.
ReadIdle ==
    rd = [action |-> "none", present |-> FALSE, paths |-> << >>, success |-> TRUE,
          dirs |-> {}, accepted |-> {}, read |-> {}]

\* The plugin server not started.
ServerIdle == srv = [pc |-> "start", lines |-> << >>, out |-> << >>]

\* The terminal interface not started.
TuiIdle ==
    tui = [all_entries |-> << >>, filtered_entries |-> << >>, selected |-> 0,
           viewport_height |-> 20, scroll_offset |-> 0, search_query |-> << >>,
           filter_index |-> 0, build |-> "none", panicked |-> FALSE,
           op |-> "none", arg |-> 0]

FrontIdle == ReadIdle /\ ServerIdle /\ TuiIdle

Init ==
    /\ fs \in FileSystems
    /\ enforce_allowlist \in BOOLEAN
    /\ allowed_dirs = {}
    /\ last = [op |-> "new", path |-> << >>, kind |-> "Ok", out |-> << >>]
    /\ IpcIdle
    /\ RwIdle
    /\ LockIdle
    /\ MainIdle
    /\ GuardIdle
    /\ RunIdle
    /\ FrontIdle

\* add_allowed_directory that replaces the allowlist by the new entry.
add_allowed_directory_replacing(path_str) ==
    LET canonical == Canonicalize(fs, ParsePath(path_str))
    IN  /\ IF canonical.ok
           THEN /\ allowed_dirs' = {canonical.path}
                /\ last' = [op |-> "add", path |-> path_str,
                            kind |-> "Ok", out |-> canonical.path]
           ELSE /\ allowed_dirs' = {}
                /\ last' = [op |-> "add", path |-> path_str,
                            kind |-> "IoError", out |-> << >>]
        /\ UNCHANGED <<fs, enforce_allowlist, outside_validator>>

\* add_allowed_directory that inserts the path as given, unresolved.
add_allowed_directory_raw(path_str) ==
    LET canonical == Canonicalize(fs, ParsePath(path_str))
    IN  /\ IF canonical.ok
           THEN /\ allowed_dirs' = allowed_dirs \cup {ParsePath(path_str).segs}
                /\ last' = [op |-> "add", path |-> path_str,
                            kind |-> "Ok", out |-> canonical.path]
           ELSE /\ allowed_dirs' = allowed_dirs
                /\ last' = [op |-> "add", path |-> path_str,
                            kind |-> "IoError", out |-> << >>]
        /\ UNCHANGED <<fs, enforce_allowlist, outside_validator>>

\* add_allowed_directory that keeps the path as given beside its canonical form.
add_allowed_directory_aliasing(path_str) ==
    LET canonical == Canonicalize(fs, ParsePath(path_str))
    IN  /\ IF canonical.ok
           THEN /\ allowed_dirs' = allowed_dirs
                                      \cup {canonical.path, ParsePath(path_str).segs}
                /\ last' = [op |-> "add", path |-> path_str,
                            kind |-> "Ok", out |-> canonical.path]
           ELSE /\ allowed_dirs' = allowed_dirs
                /\ last' = [op |-> "add", path |-> path_str,
                            kind |-> "IoError", out |-> << >>]
        /\ UNCHANGED <<fs, enforce_allowlist, outside_validator>>

\* add_allowed_directory
add_allowed_directory(path_str) ==
    LET canonical == Canonicalize(fs, ParsePath(path_str))
    IN  /\ IF canonical.ok
           THEN /\ allowed_dirs' = allowed_dirs \cup {canonical.path}
                /\ last' = [op |-> "add", path |-> path_str,
                            kind |-> "Ok", out |-> canonical.path]
           ELSE /\ allowed_dirs' = allowed_dirs
                /\ last' = [op |-> "add", path |-> path_str,
                            kind |-> "IoError", out |-> << >>]
        /\ UNCHANGED <<fs, enforce_allowlist, outside_validator>>

\* clear_allowed_directories that leaves the first entries in place.
clear_allowed_directories_partial ==
    /\ allowed_dirs' = allowed_dirs \cap {<<nA>>}
    /\ last' = [op |-> "clear", path |-> << >>, kind |-> "Ok", out |-> << >>]
    /\ UNCHANGED <<fs, enforce_allowlist, outside_validator>>

\* clear_allowed_directories
clear_allowed_directories ==
    /\ allowed_dirs' = {}
    /\ last' = [op |-> "clear", path |-> << >>, kind |-> "Ok", out |-> << >>]
    /\ UNCHANGED <<fs, enforce_allowlist, outside_validator>>

ValidatePath(path_str) ==
    LET r == validate_path(fs, allowed_dirs, enforce_allowlist, path_str)
    IN  /\ last' = [op |-> "validate", path |-> path_str,
                    kind |-> r.kind, out |-> r.out]
        /\ UNCHANGED <<fs, enforce_allowlist, allowed_dirs, outside_validator>>

AddAllowedDirectory == \E path_str \in DirInputs : add_allowed_directory(path_str)

ClearAllowedDirectories == clear_allowed_directories

Validate == \E path_str \in Inputs : ValidatePath(path_str)

Next == AddAllowedDirectory \/ ClearAllowedDirectories \/ Validate

Spec == Init /\ [][Next]_vars

\* allowed_directory_count
allowed_directory_count == Cardinality(allowed_dirs)

\* ------------------------------------------------- entries that are files, targets
\* ------------------------------------------------- that do not exist yet

\* The filesystems above, and the one where /A/l is a link to the directory /B.
EntryFileSystems == FileSystems \cup { FileSystem(PathString(TRUE, <<nB>>)) }

\* What is added to the allowlist: directories, a file, the link, a file
\* behind it, a name that does not exist.
EntryInputs ==
    { PathString(TRUE, <<nA>>),
      PathString(TRUE, <<nB>>),
      PathString(TRUE, <<nA, nF>>),
      PathString(TRUE, <<nA, nL>>),
      PathString(TRUE, <<nB, nG>>),
      PathString(TRUE, <<nN>>) }

\* What is validated: files that exist, names not yet created beside them,
\* below the link, below a file, below a missing directory, a bare name,
\* the empty path, paths that end in "..".
TargetInputs ==
    { PathString(TRUE, <<nA, nF>>),
      PathString(TRUE, <<nA, nN>>),
      PathString(TRUE, <<nA, nL>>),
      PathString(TRUE, <<nA, nL, nN>>),
      PathString(TRUE, <<nA, nL, nG>>),
      PathString(TRUE, <<nB, nG>>),
      PathString(TRUE, <<nB, nN>>),
      PathString(TRUE, <<nN, nN>>),
      PathString(TRUE, <<nA, nF, nN>>),
      PathString(TRUE, <<nA, nF, DotDot>>),
      PathString(FALSE, <<nF, DotDot>>),
      PathString(FALSE, <<nF>>),
      PathString(FALSE, <<nN>>),
      PathString(FALSE, << >>) }

EntryInit ==
    /\ fs \in EntryFileSystems
    /\ enforce_allowlist \in BOOLEAN
    /\ allowed_dirs = {}
    /\ last = [op |-> "new", path |-> << >>, kind |-> "Ok", out |-> << >>]
    /\ IpcIdle
    /\ RwIdle
    /\ LockIdle
    /\ MainIdle
    /\ GuardIdle
    /\ RunIdle
    /\ FrontIdle

AddEntry == \E path_str \in EntryInputs : add_allowed_directory(path_str)

ClearEntries == clear_allowed_directories

ValidateTarget == \E path_str \in TargetInputs : ValidatePath(path_str)

EntryNext == AddEntry \/ ClearEntries \/ ValidateTarget

SpecEntries == EntryInit /\ [][EntryNext]_vars

\* ------------------------------------------------------------------ plugin messages

\* Longest list of paths in one plugin message.
MaxBatch == 2

\* The files a host asks to analyze.
BatchFiles ==
    { PathString(TRUE, <<nA, nF>>),
      PathString(TRUE, <<nB, nG>>),
      PathString(TRUE, <<nA, DotDot>>) }

\* The directories a host sends in one set_allowed_directories message.
SetDirs ==
    { PathString(TRUE, <<nA>>),
      PathString(TRUE, <<nA, nL>>),
      PathString(TRUE, <<nN>>) }

ListsOf(S) == UNION { [1..k -> S] : k \in 0..MaxBatch }

\* path_validator::add_allowed_directory on the process-wide validator:
\* the allowlist after the call, and whether the call succeeded.
global_add_allowed_directory(f, dirs, path_str) ==
    LET canonical == Canonicalize(f, ParsePath(path_str))
    IN  IF canonical.ok
        THEN [ok |-> TRUE, dirs |-> dirs \cup {canonical.path}]
        ELSE [ok |-> FALSE, dirs |-> dirs]

\* path_validator::validate_paths: every path validated in order; the first
\* error ends the batch and nothing else is returned.
RECURSIVE validate_paths(_, _, _, _)
validate_paths(f, dirs, enforce, files) ==
    IF files = << >> THEN [kind |-> "Ok", outs |-> << >>]
    ELSE LET first == validate_path(f, dirs, enforce, Head(files))
         IN  IF first.kind # "Ok" THEN [kind |-> first.kind, outs |-> << >>]
             ELSE LET others == validate_paths(f, dirs, enforce, Tail(files))
                  IN  IF others.kind # "Ok" THEN others
                      ELSE [kind |-> "Ok", outs |-> <<first.out>> \o others.outs]

\* analyze_file: validates the path again, reads its metadata (following
\* links) and its content; TRUE when it returns an analysis.
analyze_file(f, dirs, enforce, canonical) ==
    /\ validate_path(f, dirs, enforce, PathString(TRUE, canonical)).kind = "Ok"
    /\ Canonicalize(f, [root |-> TRUE, segs |-> canonical]).ok

\* The analyses made before the first file that fails.
RECURSIVE AnalyzedUntilFailure(_, _, _, _)
AnalyzedUntilFailure(f, dirs, enforce, paths) ==
    IF paths = << >> \/ ~analyze_file(f, dirs, enforce, Head(paths)) THEN << >>
    ELSE <<Head(paths)>> \o AnalyzedUntilFailure(f, dirs, enforce, Tail(paths))

Response(action, present, payload, success, error, validated, analyzed, failed) ==
    [action |-> action, present |-> present, payload |-> payload,
     success |-> success, error |-> error, validated |-> validated,
     analyzed |-> analyzed, failed |-> failed]

\* handle_analyze that analyzes each file as soon as it has validated.
handle_analyze_one_by_one(f, dirs, enforce, present, files) ==
    LET good == SelectSeq(files, LAMBDA p : validate_path(f, dirs, enforce, p).kind = "Ok")
        outs == [i \in 1..Len(good) |-> validate_path(f, dirs, enforce, good[i]).out]
        done == AnalyzedUntilFailure(f, dirs, enforce, outs)
    IN  IF ~present THEN Response("analyze", present, files, FALSE, "Missing", << >>, << >>, << >>)
        ELSE IF files = << >>
             THEN Response("analyze", present, files, FALSE, "NoFiles", << >>, << >>, << >>)
        ELSE Response("analyze", present, files, Len(done) = Len(files),
                      IF Len(done) = Len(files) THEN "" ELSE "Failed", outs, done, << >>)

\* handle_analyze: the response to an analyze message.
handle_analyze(f, dirs, enforce, present, files) ==
    IF ~present THEN Response("analyze", present, files, FALSE, "Missing", << >>, << >>, << >>)
    ELSE IF files = << >>
         THEN Response("analyze", present, files, FALSE, "NoFiles", << >>, << >>, << >>)
    ELSE LET validated_paths == validate_paths(f, dirs, enforce, files)
         IN  IF validated_paths.kind # "Ok"
             THEN Response("analyze", present, files, FALSE, validated_paths.kind,
                           << >>, << >>, << >>)
             ELSE LET done == AnalyzedUntilFailure(f, dirs, enforce, validated_paths.outs)
                  IN  Response("analyze", present, files,
                               Len(done) = Len(validated_paths.outs),
                               IF Len(done) = Len(validated_paths.outs)
                               THEN "" ELSE "AnalyzeFailed",
                               validated_paths.outs, done, << >>)

\* The allowlist after adding every directory of the list in order.
RECURSIVE AddAll(_, _, _)
AddAll(f, dirs, directories) ==
    IF directories = << >> THEN dirs
    ELSE AddAll(f, global_add_allowed_directory(f, dirs, Head(directories)).dirs,
                Tail(directories))

\* handle_set_allowed_directories that adds to the allowlist it finds.
handle_set_allowed_directories_merging(present, well_formed, directories) ==
    IF ~present \/ ~well_formed
    THEN /\ ipc' = Response("set", present, directories, FALSE,
                            IF present THEN "InvalidFormat" ELSE "Missing",
                            << >>, << >>, << >>)
         /\ UNCHANGED allowed_dirs
    ELSE /\ allowed_dirs' = AddAll(fs, allowed_dirs, directories)
         /\ ipc' = Response("set", present, directories, TRUE, "", << >>, << >>,
                            SelectSeq(directories,
                                LAMBDA d : ~global_add_allowed_directory(fs, {}, d).ok))

\* handle_set_allowed_directories: the payload is read first, a missing list
\* or one that is not a list of strings ends the call; then the allowlist is
\* cleared and every directory added, the ones that fail listed in the response.
handle_set_allowed_directories(present, well_formed, directories) ==
    IF ~present \/ ~well_formed
    THEN /\ ipc' = Response("set", present, directories, FALSE,
                            IF present THEN "InvalidFormat" ELSE "Missing",
                            << >>, << >>, << >>)
         /\ UNCHANGED allowed_dirs
    ELSE /\ allowed_dirs' = AddAll(fs, {}, directories)
         /\ ipc' = Response("set", present, directories, TRUE, "", << >>, << >>,
                            SelectSeq(directories,
                                LAMBDA d : ~global_add_allowed_directory(fs, {}, d).ok))

\* handle_add_allowed_directory
handle_add_allowed_directory(present, directory) ==
    IF ~present
    THEN /\ ipc' = Response("add", present, << >>, FALSE, "Missing", << >>, << >>, << >>)
         /\ UNCHANGED allowed_dirs
    ELSE LET r == global_add_allowed_directory(fs, allowed_dirs, directory)
         IN  /\ allowed_dirs' = r.dirs
             /\ ipc' = Response("add", present, <<directory>>, r.ok,
                                IF r.ok THEN "" ELSE "IoError", << >>, << >>, << >>)

\* handle_clear_allowed_directories
handle_clear_allowed_directories ==
    /\ allowed_dirs' = {}
    /\ ipc' = Response("clear", TRUE, << >>, TRUE, "", << >>, << >>, << >>)

IpcSetAllowedDirectories ==
    /\ \E present, well_formed \in BOOLEAN, directories \in ListsOf(SetDirs) :
            /\ (~present => well_formed /\ directories = << >>)
            /\ (~well_formed => directories = << >>)
            /\ handle_set_allowed_directories(present, well_formed, directories)
    /\ UNCHANGED <<fs, enforce_allowlist, last, outside_ipc>>

IpcAddAllowedDirectory ==
    /\ \E present \in BOOLEAN, directory \in DirInputs :
            handle_add_allowed_directory(present, directory)
    /\ UNCHANGED <<fs, enforce_allowlist, last, outside_ipc>>

IpcClearAllowedDirectories ==
    /\ handle_clear_allowed_directories
    /\ UNCHANGED <<fs, enforce_allowlist, last, outside_ipc>>

IpcAnalyze ==
    /\ \E present \in BOOLEAN, files \in ListsOf(BatchFiles) :
            /\ (~present => files = << >>)
            /\ ipc' = handle_analyze(fs, allowed_dirs, enforce_allowlist, present, files)
    /\ UNCHANGED <<fs, enforce_allowlist, allowed_dirs, last, outside_ipc>>

\* The plugin server's validator is the process-wide one, built by
\* PathValidator::new.
IpcInit == Init /\ enforce_allowlist

IpcNext ==
    \/ AddAllowedDirectory
    \/ ClearAllowedDirectories
    \/ IpcSetAllowedDirectories
    \/ IpcAddAllowedDirectory
    \/ IpcClearAllowedDirectories
    \/ IpcAnalyze

SpecIpc == IpcInit /\ [][IpcNext]_vars

\* ------------------------------------------------------------------ concurrent callers

\* The paths concurrent callers validate.
RwFiles == { PathString(TRUE, <<nA, nF>>), PathString(TRUE, <<nB, nG>>) }

\* The directories concurrent callers add.
RwDirs == { PathString(TRUE, <<nA>>), PathString(TRUE, <<nB>>) }

At(t, pc) == threads[t].pc = pc

Goto(t, pc) == threads' = [threads EXCEPT ![t].pc = pc]

\* RwLock::write: granted when nobody holds the lock.
RwLockWrite(t) ==
    /\ rwlock.writer = {}
    /\ rwlock.readers = {}
    /\ rwlock' = [rwlock EXCEPT !.writer = {t}]

\* RwLock::read: granted when no writer holds the lock.
RwLockRead(t) ==
    /\ rwlock.writer = {}
    /\ rwlock' = [rwlock EXCEPT !.readers = @ \cup {t}]

\* The guard goes out of scope.
RwLockRelease(t) ==
    rwlock' = [writer |-> rwlock.writer \ {t}, readers |-> rwlock.readers \ {t}]

\* add_allowed_directory, up to the request for the lock: canonicalize.
AddBegin(t, path_str) ==
    /\ At(t, "idle")
    /\ LET canonical == Canonicalize(fs, ParsePath(path_str))
       IN  threads' = [threads EXCEPT ![t] =
                IF canonical.ok
                THEN [Idle EXCEPT !.pc = "add_write", !.canonical = canonical.path]
                ELSE Idle]
    /\ UNCHANGED <<fs, enforce_allowlist, allowed_dirs, last, ipcVars, lockVars, appVars, rwlock>>

\* let mut dirs = self.allowed_dirs.write()
AddWriteLock(t) ==
    /\ At(t, "add_write")
    /\ RwLockWrite(t)
    /\ Goto(t, "add_insert")
    /\ UNCHANGED <<fs, enforce_allowlist, allowed_dirs, last, ipcVars, lockVars, appVars>>

\* dirs.insert(canonical)
AddInsert(t) ==
    /\ At(t, "add_insert")
    /\ allowed_dirs' = allowed_dirs \cup {threads[t].canonical}
    /\ Goto(t, "add_unlock")
    /\ UNCHANGED <<fs, enforce_allowlist, last, ipcVars, lockVars, appVars, rwlock>>

\* add_allowed_directory returns.
AddUnlock(t) ==
    /\ At(t, "add_unlock")
    /\ RwLockRelease(t)
    /\ threads' = [threads EXCEPT ![t] = Idle]
    /\ UNCHANGED <<fs, enforce_allowlist, allowed_dirs, last, ipcVars, lockVars, appVars>>

\* clear_allowed_directories: let mut dirs = self.allowed_dirs.write()
ClearWriteLock(t) ==
    /\ At(t, "idle")
    /\ RwLockWrite(t)
    /\ Goto(t, "clear_clear")
    /\ UNCHANGED <<fs, enforce_allowlist, allowed_dirs, last, ipcVars, lockVars, appVars>>

\* dirs.clear()
ClearClear(t) ==
    /\ At(t, "clear_clear")
    /\ allowed_dirs' = {}
    /\ Goto(t, "clear_unlock")
    /\ UNCHANGED <<fs, enforce_allowlist, last, ipcVars, lockVars, appVars, rwlock>>

\* clear_allowed_directories returns.
ClearUnlock(t) ==
    /\ At(t, "clear_unlock")
    /\ RwLockRelease(t)
    /\ threads' = [threads EXCEPT ![t] = Idle]
    /\ UNCHANGED <<fs, enforce_allowlist, allowed_dirs, last, ipcVars, lockVars, appVars>>

\* validate_path, up to the call of check_allowed_directory: the traversal
\* check, the canonicalization and the symlink check touch no shared state.
ValidateBegin(t, path_str) ==
    /\ At(t, "idle")
    /\ LET checked == validate_path(fs, {}, FALSE, path_str)
       IN  threads' = [threads EXCEPT ![t] =
                IF checked.kind = "Ok" /\ enforce_allowlist
                THEN [Idle EXCEPT !.pc = "check_read", !.canonical = checked.out]
                ELSE Idle]
    /\ UNCHANGED <<fs, enforce_allowlist, allowed_dirs, last, ipcVars, lockVars, appVars, rwlock>>

\* check_allowed_directory that looks at the allowlist without the lock.
CheckUnlocked(t) ==
    /\ At(t, "check_read")
    /\ threads' = [threads EXCEPT ![t].pc = "check_is_empty", ![t].snap = allowed_dirs]
    /\ UNCHANGED <<fs, enforce_allowlist, allowed_dirs, last, ipcVars, lockVars, appVars, rwlock>>

\* check_allowed_directory: let dirs = self.allowed_dirs.read()
CheckReadLock(t) ==
    /\ At(t, "check_read")
    /\ RwLockRead(t)
    /\ threads' = [threads EXCEPT ![t].pc = "check_is_empty", ![t].snap = allowed_dirs]
    /\ UNCHANGED <<fs, enforce_allowlist, allowed_dirs, last, ipcVars, lockVars, appVars>>

\* if dirs.is_empty()
CheckIsEmpty(t) ==
    /\ At(t, "check_is_empty")
    /\ threads' = [threads EXCEPT ![t] =
            IF allowed_dirs = {}
            THEN [@ EXCEPT !.pc = "check_unlock", !.result = "NoAllowedDirectories"]
            ELSE [@ EXCEPT !.pc = "check_iter"]]
    /\ UNCHANGED <<fs, enforce_allowlist, allowed_dirs, last, ipcVars, lockVars, appVars, rwlock>>

\* for allowed_dir in dirs.iter()
CheckIter(t) ==
    /\ At(t, "check_iter")
    /\ threads' = [threads EXCEPT ![t].pc = "check_unlock", ![t].result =
            IF \E allowed_dir \in allowed_dirs :
                    StartsWith(threads[t].canonical, allowed_dir)
            THEN "Ok" ELSE "NotInAllowedDirectory"]
    /\ UNCHANGED <<fs, enforce_allowlist, allowed_dirs, last, ipcVars, lockVars, appVars, rwlock>>

\* check_allowed_directory returns.
CheckUnlock(t) ==
    /\ At(t, "check_unlock")
    /\ RwLockRelease(t)
    /\ threads' = [threads EXCEPT ![t] = Idle]
    /\ UNCHANGED <<fs, enforce_allowlist, allowed_dirs, last, ipcVars, lockVars, appVars>>

\* The callers share the process-wide validator, built by PathValidator::new.
RwInit == Init /\ enforce_allowlist

RwNext ==
    \E t \in Threads :
        \/ \E path_str \in RwDirs : AddBegin(t, path_str)
        \/ AddWriteLock(t)
        \/ AddInsert(t)
        \/ AddUnlock(t)
        \/ ClearWriteLock(t)
        \/ ClearClear(t)
        \/ ClearUnlock(t)
        \/ \E path_str \in RwFiles : ValidateBegin(t, path_str)
        \/ CheckReadLock(t)
        \/ CheckIsEmpty(t)
        \/ CheckIter(t)
        \/ CheckUnlock(t)

SpecRw == RwInit /\ [][RwNext]_vars

\* ------------------------------------------------------------------ ReadOnlyLock

\* Loop devices of the host.
MaxLoops == 1

\* Names tempfile::tempdir can give out.
MaxTempDirs == 2

LoopDevices == 1..MaxLoops

TempDirs == 1..MaxTempDirs

\* The paths a lock is asked for: name and what is found there.
LockTargets ==
    { [name |-> <<"f">>, type |-> "file"],
      [name |-> <<"a", ".", "i", "m", "g">>, type |-> "file"],
      [name |-> <<"a", ".", "r", "A", "w">>, type |-> "file"],
      [name |-> <<".", "i", "m", "g">>, type |-> "file"],
      [name |-> <<"d">>, type |-> "dir"],
      [name |-> <<"d", ".", "i", "s", "o">>, type |-> "dir"],
      [name |-> <<"s", "d", "a">>, type |-> "block"],
      [name |-> <<"n">>, type |-> "none"],
      [name |-> <<"n", ".", "v", "d", "i">>, type |-> "none"] }

\* The phrases setup_loop_device and setup_ro_mount look for in stderr.
PermissionDenied ==
    <<"P", "e", "r", "m", "i", "s", "s", "i", "o", "n", " ", "d", "e", "n",
      "i", "e", "d">>

OperationNotPermitted ==
    <<"O", "p", "e", "r", "a", "t", "i", "o", "n", " ", "n", "o", "t", " ",
      "p", "e", "r", "m", "i", "t", "t", "e", "d">>

\* What losetup and mount of util-linux print when they fail (without the
\* path they name): losetup and mount refused for a caller that is not
\* root, mount refused by the kernel, and failures of another kind.
LosetupNoAccess ==
    <<"l", "o", "s", "e", "t", "u", "p", ":", " ", "f", "a", "i", "l", "e",
      "d", " ", "t", "o", " ", "s", "e", "t", " ", "u", "p", " ", "l", "o",
      "o", "p", " ", "d", "e", "v", "i", "c", "e", ":", " ", "P", "e", "r",
      "m", "i", "s", "s", "i", "o", "n", " ", "d", "e", "n", "i", "e", "d">>

LosetupFailed ==
    <<"l", "o", "s", "e", "t", "u", "p", ":", " ", "f", "a", "i", "l", "e",
      "d", " ", "t", "o", " ", "s", "e", "t", " ", "u", "p", " ", "l", "o",
      "o", "p", " ", "d", "e", "v", "i", "c", "e", ":", " ", "I", "n", "v",
      "a", "l", "i", "d", " ", "a", "r", "g", "u", "m", "e", "n", "t">>

MountNeedsSuperuser ==
    <<"m", "o", "u", "n", "t", ":", " ", "m", "u", "s", "t", " ", "b", "e",
      " ", "s", "u", "p", "e", "r", "u", "s", "e", "r", " ", "t", "o", " ",
      "u", "s", "e", " ", "m", "o", "u", "n", "t", ".">>

MountNotPermitted ==
    <<"m", "o", "u", "n", "t", ":", " ", "m", "o", "u", "n", "t", "(", "2",
      ")", " ", "s", "y", "s", "t", "e", "m", " ", "c", "a", "l", "l", " ",
      "f", "a", "i", "l", "e", "d", ":", " ", "O", "p", "e", "r", "a", "t",
      "i", "o", "n", " ", "n", "o", "t", " ", "p", "e", "r", "m", "i", "t",
      "t", "e", "d", ".">>

MountNotBlockDevice ==
    <<"m", "o", "u", "n", "t", ":", " ", "n", "o", "t", " ", "a", " ", "b",
      "l", "o", "c", "k", " ", "d", "e", "v", "i", "c", "e", ".">>

Failure(stderr, cause) ==
    [spawned |-> TRUE, success |-> FALSE, stderr |-> stderr, cause |-> cause]

\* Command::output returns Err: the program could not be started.
NotSpawned == [spawned |-> FALSE, success |-> FALSE, stderr |-> << >>, cause |-> "other"]

\* How `losetup -f --show -r` can end; cause "privilege" when the caller's
\* lack of privilege is why it was refused.
LosetupOutcomes ==
    { Succeeded, NotSpawned,
      Failure(LosetupNoAccess, "privilege"),
      Failure(LosetupFailed, "other") }

\* How `mount -o ro,noexec,nosuid,nodev` can end.
MountOutcomes ==
    { Succeeded, NotSpawned,
      Failure(MountNeedsSuperuser, "privilege"),
      Failure(MountNotPermitted, "privilege"),
      Failure(MountNotBlockDevice, "other") }

\* Path::exists
Exists(target) == target.type # "none"

\* Path::extension: what follows the last "." of the file name, if the name
\* has one that is not its first character.
HasExtension(name) == \E i \in 2..Len(name) : name[i] = "."

Extension(name) ==
    LET dot == CHOOSE i \in 2..Len(name) :
                   name[i] = "." /\ \A j \in (i + 1)..Len(name) : name[j] # "."
    IN  SubSeq(name, dot + 1, Len(name))

ImageExtensions ==
    { <<"i", "m", "g">>, <<"i", "s", "o">>, <<"r", "a", "w">>, <<"q", "c", "o", "w", "2">>, <<"v", "m", "d", "k">>, <<"v", "d", "i">> }

\* is_block_device_or_image
is_block_device_or_image(target) ==
    IF target.type = "block" THEN TRUE
    ELSE IF HasExtension(target.name)
         THEN ToLowercase(Extension(target.name)) \in ImageExtensions
    ELSE FALSE

\* determine_lock_level that looks at the type before the extension.
determine_lock_level_type_first(target) ==
    IF target.type = "dir" THEN "MountReadOnly"
    ELSE IF is_block_device_or_image(target) THEN "LoopDevice"
    ELSE "FileReadOnly"

\* determine_lock_level
determine_lock_level(target) ==
    IF is_block_device_or_image(target) THEN "LoopDevice"
    ELSE IF target.type = "dir" THEN "MountReadOnly"
    ELSE "FileReadOnly"

Ran(cmd, ok) == [cmd |-> cmd, ok |-> ok]

\* What a setup step or acquire hands back: the result, the lock as it is
\* then, the host as it is then, the commands run.
Step(result, lock, s, log) == [result |-> result, lock |-> lock, sys |-> s, log |-> log]

MentionsPermission(stderr) ==
    Contains(stderr, PermissionDenied) \/ Contains(stderr, OperationNotPermitted)

FreeLoop(s) == CHOOSE l \in LoopDevices \ s.loops : \A m \in LoopDevices \ s.loops : l <= m

FreeTempDir(s) == CHOOSE d \in TempDirs \ s.tempdirs : \A e \in TempDirs \ s.tempdirs : d <= e

\* setup_loop_device that records a device although losetup was refused.
setup_loop_device_optimistic(lock, s, outcome) ==
    IF ~outcome.spawned
    THEN Step("LoopDeviceError", lock, s, <<Ran("losetup", FALSE)>>)
    ELSE IF ~outcome.success /\ ~MentionsPermission(outcome.stderr)
    THEN Step("LoopDeviceError", lock, s, <<Ran("losetup", FALSE)>>)
    ELSE Step("Ok", [lock EXCEPT !.loop_device = Some(1)], s,
              <<Ran("losetup", outcome.success)>>)

\* setup_loop_device
setup_loop_device(lock, s, outcome) ==
    IF ~outcome.spawned
    THEN Step("LoopDeviceError", lock, s, <<Ran("losetup", FALSE)>>)
    ELSE IF ~outcome.success
    THEN IF MentionsPermission(outcome.stderr)
         THEN Step("Ok", lock, s, <<Ran("losetup", FALSE)>>)
         ELSE Step("LoopDeviceError", lock, s, <<Ran("losetup", FALSE)>>)
    ELSE Step("Ok", [lock EXCEPT !.loop_device = Some(FreeLoop(s))],
              [s EXCEPT !.loops = @ \cup {FreeLoop(s)}],
              <<Ran("losetup", TRUE)>>)

\* setup_ro_mount
setup_ro_mount(lock, s, tempdir_ok, outcome) ==
    IF ~tempdir_ok
    THEN Step("MountError", lock, s, <<Ran("tempdir", FALSE)>>)
    ELSE LET mount_point == FreeTempDir(s)
             made == [s EXCEPT !.tempdirs = @ \cup {mount_point}]
             log(ok) == <<Ran("tempdir", TRUE), Ran("mount", ok)>>
         IN  IF ~outcome.spawned
             THEN Step("MountError", lock, made, log(FALSE))
             ELSE IF ~outcome.success
             THEN IF MentionsPermission(outcome.stderr)
                  THEN Step("Ok", lock, made, log(FALSE))
                  ELSE Step("MountError", lock, made, log(FALSE))
             ELSE Step("Ok", [lock EXCEPT !.mount_point = Some(mount_point)],
                       [made EXCEPT !.mounts = @ \cup {mount_point}], log(TRUE))

\* Drop that gives up at the first command that fails.
drop_until_failure(lock, s, umount_ok, detach_ok) ==
    LET unmounted == IF umount_ok THEN s.mounts \ lock.mount_point ELSE s.mounts
        removed == lock.mount_point \ unmounted
    IN  IF lock.mount_point # None /\ ~umount_ok
        THEN [sys |-> s, log |-> <<Ran("umount", FALSE)>>, panicked |-> FALSE]
        ELSE [panicked |-> FALSE,
              sys |-> [loops |-> IF detach_ok THEN s.loops \ lock.loop_device ELSE s.loops,
                       tempdirs |-> s.tempdirs \ removed,
                       mounts |-> unmounted],
              log |-> (IF lock.mount_point # None
                       THEN <<Ran("umount", TRUE), Ran("remove_dir", TRUE)>>
                       ELSE << >>)
                      \o (IF lock.loop_device # None
                          THEN <<Ran("losetup -d", detach_ok)>> ELSE << >>)]

\* Drop that unwraps the result of remove_dir and asserts that its
\* commands succeeded.
drop_unwrapping(lock, s, umount_ok, detach_ok) ==
    LET unmounted == IF umount_ok THEN s.mounts \ lock.mount_point ELSE s.mounts
        removed == (lock.mount_point \ unmounted) \cap s.tempdirs
    IN  [panicked |-> \/ lock.mount_point # None /\ (~umount_ok \/ removed = {})
                      \/ lock.loop_device # None /\ ~detach_ok,
         sys |-> [loops |-> IF detach_ok THEN s.loops \ lock.loop_device ELSE s.loops,
                  tempdirs |-> s.tempdirs \ removed,
                  mounts |-> unmounted],
         log |-> (IF lock.mount_point # None
                  THEN <<Ran("umount", umount_ok), Ran("remove_dir", removed # {})>>
                  ELSE << >>)
                 \o (IF lock.loop_device # None
                     THEN <<Ran("losetup -d", detach_ok)>> ELSE << >>)]

\* impl Drop for ReadOnlyLock: umount, remove_dir (an existing, unmounted
\* directory only), losetup -d, every result ignored; no call in it panics.
drop(lock, s, umount_ok, detach_ok) ==
    LET unmounted == IF umount_ok THEN s.mounts \ lock.mount_point ELSE s.mounts
        removed == (lock.mount_point \ unmounted) \cap s.tempdirs
    IN  [panicked |-> FALSE,
         sys |-> [loops |-> IF detach_ok THEN s.loops \ lock.loop_device ELSE s.loops,
                  tempdirs |-> s.tempdirs \ removed,
                  mounts |-> unmounted],
         log |-> (IF lock.mount_point # None
                  THEN <<Ran("umount", umount_ok), Ran("remove_dir", removed # {})>>
                  ELSE << >>)
                 \o (IF lock.loop_device # None
                     THEN <<Ran("losetup -d", detach_ok)>> ELSE << >>)]

NewLock(target, lock_level) ==
    [held |-> TRUE, path |-> target, lock_level |-> lock_level,
     loop_device |-> None, mount_point |-> None, is_active |-> FALSE]

\* The match on lock_level in acquire.
SetUp(lock, s, tempdir_ok, outcome) ==
    CASE lock.lock_level = "Maximum" ->
            IF is_block_device_or_image(lock.path)
            THEN setup_loop_device(lock, s, outcome)
            ELSE Step("Ok", lock, s, << >>)
      [] lock.lock_level = "LoopDevice" -> setup_loop_device(lock, s, outcome)
      [] lock.lock_level = "MountReadOnly" -> setup_ro_mount(lock, s, tempdir_ok, outcome)
      [] OTHER -> Step("Ok", lock, s, << >>)

\* acquire that hands back the lock it built when the setup failed.
acquire_keeping(target, s, tempdir_ok, outcome) ==
    IF ~Exists(target) THEN Step("PathNotFound", NoGuard, s, << >>)
    ELSE LET set_up == SetUp(NewLock(target, determine_lock_level(target)),
                             s, tempdir_ok, outcome)
         IN  IF set_up.result # "Ok"
             THEN Step(set_up.result, set_up.lock, set_up.sys, set_up.log)
             ELSE Step("Ok", [set_up.lock EXCEPT !.is_active = TRUE],
                       set_up.sys, set_up.log)

\* acquire that chooses and sets up the lock before it looks for the path.
acquire_setup_first(target, s, tempdir_ok, outcome) ==
    LET set_up == SetUp(NewLock(target, determine_lock_level(target)),
                        s, tempdir_ok, outcome)
    IN  IF ~Exists(target) THEN Step("PathNotFound", NoGuard, set_up.sys, set_up.log)
        ELSE IF set_up.result # "Ok"
        THEN Step(set_up.result, NoGuard, set_up.sys, set_up.log)
        ELSE Step("Ok", [set_up.lock EXCEPT !.is_active = TRUE], set_up.sys, set_up.log)

\* ReadOnlyLock::acquire; on an error the lock built so far is dropped.
acquire(target, s, tempdir_ok, outcome) ==
    IF ~Exists(target) THEN Step("PathNotFound", NoGuard, s, << >>)
    ELSE LET set_up == SetUp(NewLock(target, determine_lock_level(target)),
                             s, tempdir_ok, outcome)
         IN  IF set_up.result # "Ok"
             THEN LET dropped == drop(set_up.lock, set_up.sys, TRUE, TRUE)
                  IN  Step(set_up.result, NoGuard, dropped.sys, set_up.log \o dropped.log)
             ELSE Step("Ok", [set_up.lock EXCEPT !.is_active = TRUE],
                       set_up.sys, set_up.log)

\* The outcomes the command of this lock level can have on this host.
Outcomes(target, s) ==
    IF ~Exists(target) THEN {Succeeded}
    ELSE CASE determine_lock_level(target) = "LoopDevice" ->
                { o \in LosetupOutcomes : o.success => LoopDevices \ s.loops # {} }
           [] determine_lock_level(target) = "MountReadOnly" -> MountOutcomes
           [] OTHER -> {Succeeded}

\* tempfile::tempdir can fail, and does when no name is left.
TempDirOutcomes(target, s) ==
    IF Exists(target) /\ determine_lock_level(target) = "MountReadOnly"
    THEN { ok \in BOOLEAN : ok => TempDirs \ s.tempdirs # {} }
    ELSE {TRUE}

Acquire ==
    /\ ~guard.held
    /\ \E target \in LockTargets :
       \E outcome \in Outcomes(target, sys), tempdir_ok \in TempDirOutcomes(target, sys) :
            LET got == acquire(target, sys, tempdir_ok, outcome)
            IN  /\ guard' = got.lock
                /\ sys' = got.sys
                /\ acq' = [op |-> "acquire", target |-> target, result |-> got.result,
                           lock_level |-> IF Exists(target)
                                          THEN determine_lock_level(target) ELSE "none",
                           outcome |-> outcome, log |-> got.log, lock |-> got.lock,
                           before |-> sys, panicked |-> FALSE]
    /\ UNCHANGED <<fs, enforce_allowlist, allowed_dirs, last, ipcVars, rwVars, appVars>>

\* umount succeeds on a mounted directory only, and can fail on one (busy);
\* when the guard has no mount point no command is run.
UmountOutcomes(lock, s) ==
    { ok \in BOOLEAN : (lock.mount_point = None => ok)
                         /\ (ok => lock.mount_point \subseteq s.mounts) }

\* losetup -d succeeds on an attached device only.
DetachOutcomes(lock, s) ==
    { ok \in BOOLEAN : (lock.loop_device = None => ok)
                         /\ (ok => lock.loop_device \subseteq s.loops) }

\* The guard goes out of scope.
Release ==
    /\ guard.held
    /\ \E umount_ok \in UmountOutcomes(guard, sys),
          detach_ok \in DetachOutcomes(guard, sys) :
            LET dropped == drop(guard, sys, umount_ok, detach_ok)
            IN  /\ sys' = dropped.sys
                /\ acq' = [op |-> "release", target |-> guard.path, result |-> "Ok",
                           lock_level |-> guard.lock_level, outcome |-> Succeeded,
                           log |-> dropped.log, lock |-> guard,
                           before |-> sys, panicked |-> dropped.panicked]
    /\ guard' = NoGuard
    /\ UNCHANGED <<fs, enforce_allowlist, allowed_dirs, last, ipcVars, rwVars, appVars>>

\* The release logic runs once more on the guard that was released.
ReleaseAgain ==
    /\ ~guard.held
    /\ acq.op \in {"release", "release again"}
    /\ \E umount_ok \in UmountOutcomes(acq.lock, sys),
          detach_ok \in DetachOutcomes(acq.lock, sys) :
            LET dropped == drop(acq.lock, sys, umount_ok, detach_ok)
            IN  /\ sys' = dropped.sys
                /\ acq' = [acq EXCEPT !.op = "release again", !.log = dropped.log,
                                         !.panicked = dropped.panicked]
    /\ UNCHANGED <<fs, enforce_allowlist, allowed_dirs, last, ipcVars, rwVars, appVars, guard>>

\* One filesystem is enough here: the lock looks at its own target only.
LockInit == Init /\ enforce_allowlist /\ fs = FileSystem(PathString(FALSE, <<nF>>))

LockNext == Acquire \/ Release

SpecLock == LockInit /\ [][LockNext]_vars

\* Every value a ReadOnlyLock can have, on a host where what it records is
\* in place.
Locks ==
    { [held |-> TRUE, path |-> target, lock_level |-> lock_level,
       loop_device |-> loop_device, mount_point |-> mount_point, is_active |-> TRUE] :
        target \in { t \in LockTargets : Exists(t) },
        lock_level \in {"LoopDevice", "MountReadOnly", "FileReadOnly", "Maximum"},
        loop_device \in {None} \cup { Some(l) : l \in LoopDevices },
        mount_point \in {None} \cup { Some(d) : d \in TempDirs } }

DropInit ==
    /\ fs = FileSystem(PathString(FALSE, <<nF>>))
    /\ enforce_allowlist = TRUE
    /\ allowed_dirs = {}
    /\ last = [op |-> "new", path |-> << >>, kind |-> "Ok", out |-> << >>]
    /\ IpcIdle
    /\ RwIdle
    /\ MainIdle
    /\ GuardIdle
    /\ RunIdle
    /\ FrontIdle
    /\ guard \in Locks
    /\ sys \in { s \in [loops : SUBSET guard.loop_device,
                        tempdirs : SUBSET guard.mount_point,
                        mounts : SUBSET guard.mount_point] :
                    s.mounts \subseteq s.tempdirs }
    /\ acq = [op |-> "none", target |-> NoTarget, result |-> "Ok",
              lock_level |-> "none", outcome |-> Succeeded, log |-> << >>,
              lock |-> NoGuard, before |-> sys, panicked |-> FALSE]

DropNext == Release \/ ReleaseAgain

SpecDrop == DropInit /\ [][DropNext]_vars

\* ------------------------------------------------------------------ plugin token, start of the program

\* validate_plugin_token: shortest and longest token accepted.
MinTokenLen == 32

MaxTokenLen == 1024

\* Longest token, in runs of one character.
MaxRuns == 2

\* The characters tokens are made of; the last one is not ASCII.
TokenChars == { "a", "Z", "9", "-", "_", ".", "=", "+", " ", "é" }

\* How many times a character is repeated.
RunLengths == { 1, 31, 32, 1024, 1025 }

\* A token is a string, written as runs of a repeated character.
Run(c, n) == [c |-> c, n |-> n]

Tokens ==
    UNION { [1..k -> { Run(c, n) : c \in TokenChars, n \in RunLengths }]
            : k \in 1..MaxRuns }

\* Bytes of the UTF-8 encoding of a character.
Utf8Len(c) == IF c = "é" THEN 2 ELSE 1

\* str::len: the length in bytes.
RECURSIVE StrLen(_)
StrLen(token) ==
    IF token = << >> THEN 0
    ELSE Head(token).n * Utf8Len(Head(token).c) + StrLen(Tail(token))

\* char::is_ascii_alphanumeric, on the characters tokens are made of.
is_ascii_alphanumeric(c) == c \in { "a", "f", "z", "Z", "9" }

\* validate_plugin_token that takes the minimum as an exclusive bound.
validate_plugin_token_exclusive(token) ==
    IF StrLen(token) <= MinTokenLen THEN "TooShort"
    ELSE IF StrLen(token) > MaxTokenLen THEN "TooLong"
    ELSE IF ~\A i \in 1..Len(token) :
                \/ is_ascii_alphanumeric(token[i].c)
                \/ token[i].c \in { "-", "_", ".", "=", "+" }
    THEN "InvalidCharacters"
    ELSE "Ok"

\* validate_plugin_token
validate_plugin_token(token) ==
    IF StrLen(token) < MinTokenLen THEN "TooShort"
    ELSE IF StrLen(token) > MaxTokenLen THEN "TooLong"
    ELSE IF ~\A i \in 1..Len(token) :
                \/ is_ascii_alphanumeric(token[i].c)
                \/ token[i].c = "-"
                \/ token[i].c = "_"
                \/ token[i].c = "."
                \/ token[i].c = "="
                \/ token[i].c = "+"
    THEN "InvalidCharacters"
    ELSE "Ok"

\* How often one token is validated.
MaxCalls == 2

ValidatePluginToken ==
    /\ tok.calls < MaxCalls
    /\ tok' = [tok EXCEPT !.verdict = validate_plugin_token(tok.token),
                          !.first = IF tok.calls = 0
                                    THEN validate_plugin_token(tok.token) ELSE @,
                          !.calls = @ + 1]
    /\ UNCHANGED <<fs, enforce_allowlist, allowed_dirs, last, ipcVars, rwVars, lockVars, proc,
                   guardVars, runVars, frontVars>>

\* Any token may be handed to the validator.
TokenInit ==
    /\ fs = FileSystem(PathString(FALSE, <<nF>>))
    /\ enforce_allowlist = TRUE
    /\ allowed_dirs = {}
    /\ last = [op |-> "new", path |-> << >>, kind |-> "Ok", out |-> << >>]
    /\ IpcIdle
    /\ RwIdle
    /\ LockIdle
    /\ tok \in [token : Tokens, verdict : {"none"}, first : {"none"}, calls : {0}]
    /\ proc = NotStarted
    /\ GuardIdle
    /\ RunIdle
    /\ FrontIdle

SpecToken == TokenInit /\ [][ValidatePluginToken]_vars

\* The tokens a host starts the plugin with.
StartTokens ==
    { <<Run("a", 32), Run("f", 32)>>,
      <<Run("z", 32), Run("z", 32)>>,
      <<Run("a", 31)>>,
      <<Run("a", 32), Run(" ", 1)>>,
      <<Run("a", 1025)>> }

\* Values of ENVIRONMENT (ENV, RUST_ENV, APP_ENV); << >> when none is set.
EnvironmentValues ==
    { << >>,
      <<"P", "r", "o", "d", "u", "c", "t", "i", "o", "n">>,
      <<"P", "R", "O", "D">>,
      <<"S", "t", "a", "g", "i", "n", "g">>,
      <<"D", "e", "v", "e", "l", "o", "p", "m", "e", "n", "t">>,
      <<"t", "e", "s", "t">> }

\* Values of DISABLE_AUTH; None when it is not set.
DisableAuthValues ==
    { None, Some(<<"t", "r", "u", "e">>), Some(<<"T", "R", "U", "E">>), Some(<<"1">>), Some(<<"y", "e", "s">>),
      Some(<<"f", "a", "l", "s", "e">>) }

\* Environment::detect: the first variable with a known value decides, then
\* the variables a cloud platform sets, then Development.
detect(environment, cloud) ==
    LET val == ToLowercase(environment)
    IN  IF environment # << >> /\ val \in { <<"p", "r", "o", "d", "u", "c", "t", "i", "o", "n">>, <<"p", "r", "o", "d">> }
        THEN "Production"
        ELSE IF environment # << >> /\ val \in { <<"s", "t", "a", "g", "i", "n", "g">>, <<"s", "t", "a", "g", "e">> }
        THEN "Staging"
        ELSE IF environment # << >> /\ val \in { <<"d", "e", "v", "e", "l", "o", "p", "m", "e", "n", "t">>, <<"d", "e", "v">>, <<"l", "o", "c", "a", "l">> }
        THEN "Development"
        ELSE IF cloud THEN "Production"
        ELSE "Development"

\* Environment::is_production
is_production(environment) == environment \in {"Production", "Staging"}

\* AuthGuard::is_auth_disabled
is_auth_disabled(disable_auth) ==
    /\ disable_auth # None
    /\ \E v \in disable_auth : ToLowercase(v) \in { <<"t", "r", "u", "e">>, <<"1">>, <<"y", "e", "s">> }

\* AuthGuard::init: the events of the call; it ends in a panic or returns.
AuthGuard_init(environment, cloud, disable_auth) ==
    IF is_production(detect(environment, cloud)) /\ is_auth_disabled(disable_auth)
    THEN <<"auth init", "panic: SECURITY VIOLATION">>
    ELSE IF is_auth_disabled(disable_auth)
    THEN <<"auth init", "auth disabled">>
    ELSE <<"auth init", "auth active">>

Panicked(events) == events # << >> /\ events[Len(events)] = "panic: SECURITY VIOLATION"

\* What a start of the program does and how it exits.
Ended(events, exit) == [events |-> events, exit |-> exit]

\* main that starts the plugin server with whatever token was supplied.
main_unvalidated(plugin_mode, mode, plugin_token, environment, cloud, disable_auth, config_ok, run_ok) ==
    IF plugin_mode
    THEN IF plugin_token = None
         THEN Ended(<<"no token">>, "error")
         ELSE Ended(<<"ipc ready", "ipc serve">>, "ok")
    ELSE LET auth == AuthGuard_init(environment, cloud, disable_auth)
         IN  IF Panicked(auth) THEN Ended(auth, "panic")
             ELSE IF ~config_ok THEN Ended(auth \o <<"config load">>, "error")
             ELSE Ended(auth \o <<"config load", mode>>,
                        IF run_ok THEN "ok" ELSE "error")

\* main: plugin mode first, then the auth guard, the config, the mode chosen.
main(plugin_mode, mode, plugin_token, environment, cloud, disable_auth, config_ok, run_ok) ==
    IF plugin_mode
    THEN IF plugin_token = None
         THEN Ended(<<"no token">>, "error")
         ELSE IF \E token \in plugin_token : validate_plugin_token(token) # "Ok"
         THEN Ended(<<"validate token">>, "error")
         ELSE Ended(<<"validate token", "ipc ready", "ipc serve">>, "ok")
    ELSE LET auth == AuthGuard_init(environment, cloud, disable_auth)
         IN  IF Panicked(auth) THEN Ended(auth, "panic")
             ELSE IF ~config_ok THEN Ended(auth \o <<"config load">>, "error")
             ELSE Ended(auth \o <<"config load", mode>>,
                        IF run_ok THEN "ok" ELSE "error")

\* Cli::parse: --plugin-token, or DIAMOND_PLUGIN_TOKEN when it is not given.
ParsedToken(arg_token, env_token) == IF arg_token # None THEN arg_token ELSE env_token

TokenOptions == {None} \cup { Some(token) : token \in StartTokens }

\* One behaviour is one run of the process.
Start ==
    /\ ~proc.started
    /\ \E plugin_mode \in BOOLEAN, mode \in {"gui", "tui", "cli"},
          arg_token \in TokenOptions, env_token \in TokenOptions,
          environment \in EnvironmentValues, cloud \in BOOLEAN,
          disable_auth \in DisableAuthValues,
          config_ok \in BOOLEAN, run_ok \in BOOLEAN :
            LET plugin_token == ParsedToken(arg_token, env_token)
                ended == main(plugin_mode, mode, plugin_token, environment, cloud,
                              disable_auth, config_ok, run_ok)
            IN  proc' = [started |-> TRUE, plugin_mode |-> plugin_mode, mode |-> mode,
                         plugin_token |-> plugin_token, environment |-> environment,
                         cloud |-> cloud, disable_auth |-> disable_auth,
                         events |-> ended.events, exit |-> ended.exit]
    /\ UNCHANGED <<fs, enforce_allowlist, allowed_dirs, last, ipcVars, rwVars, lockVars, tok,
                   guardVars, runVars, frontVars>>

MainInit == Init /\ enforce_allowlist /\ fs = FileSystem(PathString(FALSE, <<nF>>))

SpecMain == MainInit /\ [][Start]_vars

\* ------------------------------------------------------------------ open_readonly, WriteGuard

\* The paths a lock is held on; acquire has seen them exist.
LockRoots(f) ==
    { p \in { PathString(TRUE, <<nA>>), PathString(TRUE, <<nB>>),
              PathString(TRUE, <<nA, nF>>), PathString(TRUE, <<nA, nL>>) } :
        Canonicalize(f, ParsePath(p)).ok }

\* The paths opened or checked: inside and outside a locked directory,
\* through "..", through the link, relative, missing.
GuardTargets ==
    { PathString(TRUE, <<nA>>),
      PathString(TRUE, <<nA, nF>>),
      PathString(TRUE, <<nA, nL>>),
      PathString(TRUE, <<nA, nN>>),
      PathString(TRUE, <<nA, DotDot, nB, nG>>),
      PathString(TRUE, <<nB, nG>>),
      PathString(TRUE, <<nB, nN>>),
      PathString(TRUE, <<nB, DotDot, nA, nF>>),
      PathString(FALSE, <<nF>>),
      PathString(FALSE, <<DotDot, nB, nG>>) }

\* What open_readonly returns: the error, or a handle on the file reached.
Opened(kind, handle) == [kind |-> kind, handle |-> handle, access |-> {}]

\* The flags open_readonly opens with: read(true), write(false),
\* create(false), custom_flags(O_RDONLY | O_NOFOLLOW).
OpenFlags == {"O_RDONLY", "O_NOFOLLOW"}

\* open(2) without O_CREAT: with O_NOFOLLOW a symbolic link in the last
\* place is refused (ELOOP); the handle can do what the access mode allows.
os_open(f, path_str, flags) ==
    IF "O_NOFOLLOW" \in flags /\ IsSymlink(f, ParsePath(path_str))
    THEN Opened("IoError", None)
    ELSE IF ~Canonicalize(f, ParsePath(path_str)).ok THEN Opened("IoError", None)
    ELSE [kind |-> "Ok",
          handle |-> Some(Canonicalize(f, ParsePath(path_str)).path),
          access |-> IF "O_RDWR" \in flags THEN {"read", "write"}
                     ELSE IF "O_WRONLY" \in flags THEN {"write"}
                     ELSE {"read"}]

\* open_readonly that opens without O_NOFOLLOW.
open_readonly_following(f, lock_path, path_str) ==
    LET canonical_lock == Canonicalize(f, ParsePath(lock_path))
        canonical_target == Canonicalize(f, ParsePath(path_str))
    IN  IF ~canonical_lock.ok THEN Opened("IoError", None)
        ELSE IF ~canonical_target.ok THEN Opened("IoError", None)
        ELSE IF ~StartsWith(canonical_target.path, canonical_lock.path)
        THEN Opened("WriteAttemptBlocked", None)
        ELSE os_open(f, path_str, {"O_RDONLY"})

\* open_readonly that compares the paths as they are written.
open_readonly_lexical(f, lock_path, path_str) ==
    LET canonical_target == Canonicalize(f, ParsePath(path_str))
    IN  IF ~canonical_target.ok THEN Opened("IoError", None)
        ELSE IF ~StartsWith(Components(ParsePath(path_str)),
                            Components(ParsePath(lock_path)))
        THEN Opened("WriteAttemptBlocked", None)
        ELSE os_open(f, path_str, OpenFlags)

\* ReadOnlyLock::open_readonly: both paths canonical, the target under the
\* lock, then open(2) of the path as given with O_RDONLY | O_NOFOLLOW, which
\* refuses a symbolic link in the last place.
open_readonly(f, lock_path, path_str) ==
    LET canonical_lock == Canonicalize(f, ParsePath(lock_path))
        canonical_target == Canonicalize(f, ParsePath(path_str))
    IN  IF ~canonical_lock.ok THEN Opened("IoError", None)
        ELSE IF ~canonical_target.ok THEN Opened("IoError", None)
        ELSE IF ~StartsWith(canonical_target.path, canonical_lock.path)
        THEN Opened("WriteAttemptBlocked", None)
        ELSE os_open(f, path_str, OpenFlags)

\* check_write that returns when it finds no locked path above the target.
check_write_returning(f, locked_paths, path_str) ==
    IF \E locked \in locked_paths :
           /\ Canonicalize(f, ParsePath(locked)).ok
           /\ Canonicalize(f, ParsePath(path_str)).ok
           /\ StartsWith(Canonicalize(f, ParsePath(path_str)).path,
                         Canonicalize(f, ParsePath(locked)).path)
    THEN "WRITE ATTEMPT BLOCKED"
    ELSE "returned"

\* WriteGuard::check_write never returns: the panic it ends in.
check_write(f, locked_paths, path_str) ==
    IF \E locked \in locked_paths :
           /\ Canonicalize(f, ParsePath(locked)).ok
           /\ Canonicalize(f, ParsePath(path_str)).ok
           /\ StartsWith(Canonicalize(f, ParsePath(path_str)).path,
                         Canonicalize(f, ParsePath(locked)).path)
    THEN "WRITE ATTEMPT BLOCKED"
    ELSE "unreachable: check_write called on non-locked path"

OpenReadonly ==
    /\ \E lock_path \in LockRoots(fs), path_str \in GuardTargets :
         LET opened == open_readonly(fs, lock_path, path_str)
         IN  ro' = [op |-> "open_readonly", lock |-> lock_path, locked |-> {},
                    path |-> path_str, kind |-> opened.kind, handle |-> opened.handle,
                    access |-> opened.access]
    /\ UNCHANGED <<fs, enforce_allowlist, allowed_dirs, last, ipcVars, rwVars, lockVars,
                   mainVars, runVars, frontVars>>

\* The paths a WriteGuard is made with.
LockedPathSets ==
    { { PathString(TRUE, <<nA>>) },
      { PathString(TRUE, <<nB>>) },
      { PathString(TRUE, <<nA>>), PathString(TRUE, <<nB>>) },
      { PathString(TRUE, <<nA, nF>>) },
      { PathString(TRUE, <<nN>>) } }

CheckWrite ==
    /\ \E locked_paths \in LockedPathSets, path_str \in GuardTargets :
         ro' = [op |-> "check_write", lock |-> << >>, locked |-> locked_paths,
                path |-> path_str, kind |-> check_write(fs, locked_paths, path_str),
                handle |-> None, access |-> {}]
    /\ UNCHANGED <<fs, enforce_allowlist, allowed_dirs, last, ipcVars, rwVars, lockVars,
                   mainVars, runVars, frontVars>>

GuardInit == Init /\ enforce_allowlist

GuardNext == OpenReadonly \/ CheckWrite

SpecGuard == GuardInit /\ [][GuardNext]_vars

\* ------------------------------------------------------------------ analysis runs: CLI, TUI, GUI

\* The source paths of a run: a directory, a file in it, the link, a missing name.
RunSources ==
    { PathString(TRUE, <<nA>>),
      PathString(TRUE, <<nA, nF>>),
      PathString(TRUE, <<nA, nL>>),
      PathString(TRUE, <<nB, nN>>) }

\* The destination paths of a run.
RunDests ==
    { PathString(TRUE, <<nB, nN>>),
      PathString(TRUE, <<nB, nG>>),
      PathString(TRUE, <<nA, nN>>),
      PathString(TRUE, <<nA, nF>>),
      PathString(TRUE, <<nA, nL>>),
      PathString(TRUE, <<nA>>),
      PathString(TRUE, <<nN, nN>>) }

\* Path::is_dir, Path::is_file: of what the path resolves to.
is_dir(f, path_str) ==
    /\ Canonicalize(f, ParsePath(path_str)).ok
    /\ f[Canonicalize(f, ParsePath(path_str)).path].kind = "dir"

is_file(f, path_str) ==
    /\ Canonicalize(f, ParsePath(path_str)).ok
    /\ f[Canonicalize(f, ParsePath(path_str)).path].kind = "file"

\* The path as ReadOnlyLock sees it: its file name and what is found there.
TargetOf(f, path_str) ==
    [name |-> IF HasFileName(ParsePath(path_str))
              THEN FileName(ParsePath(path_str)) ELSE << >>,
     type |-> IF is_dir(f, path_str) THEN "dir"
              ELSE IF is_file(f, path_str) THEN "file"
              ELSE "none"]

\* Where open(2) with O_CREAT puts a file for a path that does not resolve:
\* in the parent directory, when that resolves.
CreateAt(f, p) ==
    IF HasParent(p) /\ HasFileName(p) /\ Canonicalize(f, Parent(p)).ok
       /\ f[Canonicalize(f, Parent(p)).path].kind = "dir"
    THEN Some(Append(Canonicalize(f, Parent(p)).path, FileName(p)))
    ELSE None

\* What a write did: the result, the existing file it overwrote, the file it made.
Wrote(result, overwritten, created) ==
    [result |-> result, overwritten |-> overwritten, created |-> created]

\* tokio::fs::write(dest, content): creates the file or truncates the one
\* the path resolves to, through symbolic links, and writes the report.
write(f, dest, write_ok) ==
    LET p == ParsePath(dest)
        direct == Canonicalize(f, p)
        through == IF IsSymlink(f, p)
                   THEN LET t == ParsePath(ReadLink(f, p).target)
                        IN  IF t.root THEN CreateAt(f, t)
                            ELSE CreateAt(f, [root |-> p.root,
                                              segs |-> SubSeq(p.segs, 1, Len(p.segs) - 1)
                                                       \o t.segs])
                   ELSE CreateAt(f, p)
    IN  IF ~write_ok THEN Wrote("IoError", None, None)
        ELSE IF direct.ok
        THEN IF f[direct.path].kind = "file"
             THEN Wrote("Ok", Some(direct.path), None)
             ELSE Wrote("IoError", None, None)
        ELSE IF through # None THEN Wrote("Ok", None, through)
        ELSE Wrote("IoError", None, None)

\* What a run did, in order, how it ended and what it left.
RunEnded(events, result, s, wrote) ==
    [events |-> events, result |-> result, sys |-> s,
     overwritten |-> wrote.overwritten, created |-> wrote.created]

NothingWritten == Wrote("Ok", None, None)

\* The first statement of the run: ReadOnlyLock::acquire on the source, in
\* the CLI when --ro-lock is on, in the TUI and the GUI always.
Locked(f, s, source, locking, tempdir_ok, outcome) ==
    IF locking THEN acquire(TargetOf(f, source), s, tempdir_ok, outcome)
    ELSE Step("Ok", NoGuard, s, << >>)

\* run_cli from the lock on, and run_analysis of the TUI and of the GUI:
\* acquire (got is what it handed back), analyze (the source is walked and
\* its files are stat'ed), export; the guard is dropped when the function
\* returns, with Ok or through `?`.
run_analysis(f, got, dest, locking, write_ok, umount_ok, detach_ok) ==
    LET wrote == write(f, dest, write_ok)
        released == IF locking
                    THEN [sys |-> drop(got.lock, got.sys, umount_ok, detach_ok).sys,
                          events |-> <<"release">>]
                    ELSE [sys |-> got.sys, events |-> << >>]
        acquired == IF locking THEN <<"acquire">> ELSE << >>
    IN  IF got.result # "Ok"
        THEN RunEnded(<<"acquire failed">>, got.result, got.sys, NothingWritten)
        ELSE IF wrote.result # "Ok"
        THEN RunEnded(acquired \o <<"read source", "export failed">> \o released.events,
                  wrote.result, released.sys, wrote)
        ELSE RunEnded(acquired \o <<"read source", "write dest">> \o released.events,
                  "Ok", released.sys, wrote)

\* The commands of the run and of the release end as the host allows.
Feasible(target, s, got, locking, tempdir_ok, outcome, umount_ok, detach_ok) ==
    IF locking
    THEN /\ outcome \in Outcomes(target, s)
         /\ tempdir_ok \in TempDirOutcomes(target, s)
         /\ umount_ok \in UmountOutcomes(got.lock, got.sys)
         /\ detach_ok \in DetachOutcomes(got.lock, got.sys)
    ELSE outcome = Succeeded /\ tempdir_ok /\ umount_ok /\ detach_ok

\* The run as an action: before stands for what the front end read of the
\* source before the run began.
Analyse(mode, source, dest, locking, before) ==
    \E outcome \in LosetupOutcomes \cup MountOutcomes,
       tempdir_ok \in BOOLEAN, write_ok \in BOOLEAN,
       umount_ok \in BOOLEAN, detach_ok \in BOOLEAN :
    \E target \in {TargetOf(fs, source)} :
    \E got \in {Locked(fs, sys, source, locking, tempdir_ok, outcome)} :
    \E ran \in {run_analysis(fs, got, dest, locking, write_ok, umount_ok, detach_ok)} :
        /\ Feasible(target, sys, got, locking, tempdir_ok, outcome, umount_ok, detach_ok)
        /\ run' = [mode |-> mode, source |-> source, dest |-> dest,
                   ro_lock |-> locking, events |-> before \o ran.events,
                   result |-> ran.result]
        /\ sys' = ran.sys
        /\ disk' = [created |-> disk.created \cup ran.created,
                    overwritten |-> disk.overwritten \cup ran.overwritten]
        /\ fs' = [n \in DOMAIN fs \cup ran.created |->
                     IF n \in DOMAIN fs THEN fs[n]
                     ELSE [kind |-> "file", target |-> << >>]]

\* One behaviour is one run. main's CLI mode: --source, --dest, --ro-lock.
RunCli ==
    /\ run.mode = "none"
    /\ \E source \in RunSources, dest \in RunDests, ro_lock \in BOOLEAN :
          Analyse("cli", source, dest, ro_lock, << >>)
    /\ UNCHANGED <<enforce_allowlist, allowed_dirs, last, ipcVars, rwVars, guard, acq,
                   mainVars, guardVars, frontVars>>

\* select_current: an entry of the listing that is not a directory.
Selectable(f, path_str) ==
    /\ IsSymlink(f, ParsePath(path_str)) \/ is_file(f, path_str)
    /\ ~is_dir(f, path_str)

\* The TUI: source and destination are entries of the listing that are not
\* directories; an entry highlighted for PREVIEW_DEBOUNCE_MS or longer has
\* been read for the preview pane; 'a' runs the analysis.
RunTui ==
    /\ run.mode = "none"
    /\ \E source \in { p \in RunSources : Selectable(fs, p) },
          dest \in { p \in RunDests : Selectable(fs, p) },
          previewed \in BOOLEAN :
          Analyse("tui", source, dest, TRUE,
                  IF previewed /\ is_file(fs, source)
                  THEN <<"preview source">> ELSE << >>)
    /\ UNCHANGED <<enforce_allowlist, allowed_dirs, last, ipcVars, rwVars, guard, acq,
                   mainVars, guardVars, frontVars>>

\* The GUI: the paths are typed or picked from the listing; a directory the
\* user went into has been listed; Analyze runs the analysis.
RunGui ==
    /\ run.mode = "none"
    /\ \E source \in RunSources, dest \in RunDests, listed \in BOOLEAN :
          Analyse("gui", source, dest, TRUE,
                  IF listed /\ is_dir(fs, source)
                  THEN <<"list source">> ELSE << >>)
    /\ UNCHANGED <<enforce_allowlist, allowed_dirs, last, ipcVars, rwVars, guard, acq,
                   mainVars, guardVars, frontVars>>

RunInit == Init /\ enforce_allowlist

RunNext == RunCli \/ RunTui \/ RunGui

SpecRun == RunInit /\ [][RunNext]_vars

\* ------------------------------------------------------------------ plugin messages that read files

\* The paths a host asks to report on, browse or analyze in depth.
ReadPaths ==
    { PathString(TRUE, <<nA>>),
      PathString(TRUE, <<nA, nF>>),
      PathString(TRUE, <<nA, nL>>),
      PathString(TRUE, <<nB>>),
      PathString(TRUE, <<nN>>),
      PathString(TRUE, <<nA, DotDot>>) }

\* The files a host asks a report on.
ReportFiles == BatchFiles \cup { PathString(TRUE, <<nA, nL>>) }

\* What the filesystem holds directly in a directory, by canonical path.
Children(f, dir) ==
    { c \in DOMAIN f : Len(c) = Len(dir) + 1 /\ SubSeq(c, 1, Len(dir)) = dir }

\* WalkDir::new(path).follow_links(true).into_iter().filter_map(|e| e.ok()):
\* the path itself and, below a directory or a link to one, every entry by
\* the path it was reached through; a link that does not resolve is an error
\* and is dropped.
RECURSIVE WalkDir(_, _)
WalkDir(f, path) ==
    LET node == Canonicalize(f, [root |-> TRUE, segs |-> path])
    IN  IF ~node.ok THEN {}
        ELSE IF f[node.path].kind = "dir"
             THEN {path} \cup UNION { WalkDir(f, Append(path, c[Len(c)]))
                                      : c \in Children(f, node.path) }
        ELSE {path}

\* What a handler did: the paths validate_path accepted for it under the
\* allowlist of that moment, and the paths it read content or metadata of.
Read(action, present, paths, success, dirs, accepted, read) ==
    [action |-> action, present |-> present, paths |-> paths, success |-> success,
     dirs |-> dirs, accepted |-> accepted, read |-> read]

\* handle_report: analyze_file for every path, the ones that fail skipped.
handle_report(f, dirs, enforce, present, files) ==
    LET outs == { validate_path(f, dirs, enforce, p).out
                  : p \in { x \in Range(files)
                            : validate_path(f, dirs, enforce, x).kind = "Ok" } }
    IN  IF ~present THEN Read("report", present, files, FALSE, dirs, {}, {})
        ELSE Read("report", present, files, TRUE, dirs, outs, outs)

\* handle_browse: the path, "." without one, is validated; the directory is
\* read and every entry asked whether it is a directory, links followed.
handle_browse(f, dirs, enforce, present, path) ==
    LET asked == IF present THEN path ELSE PathString(FALSE, <<Dot>>)
        validated_path == validate_path(f, dirs, enforce, asked)
    IN  IF validated_path.kind # "Ok"
        THEN Read("browse", present, <<asked>>, FALSE, dirs, {}, {})
        ELSE IF validated_path.out \notin DOMAIN f
                  \/ f[validated_path.out].kind # "dir"
             THEN Read("browse", present, <<asked>>, FALSE, dirs,
                       {validated_path.out}, {validated_path.out})
        ELSE Read("browse", present, <<asked>>, TRUE, dirs, {validated_path.out},
                  {validated_path.out} \cup Children(f, validated_path.out))

\* handle_deep_analyze: the path is validated, then analyzer::analyze walks
\* it with Config::default(), which follows links, and asks every entry for
\* its type and metadata.
handle_deep_analyze(f, dirs, enforce, present, path) ==
    LET validated_path == validate_path(f, dirs, enforce, path)
    IN  IF ~present THEN Read("deep_analyze", present, << >>, FALSE, dirs, {}, {})
        ELSE IF validated_path.kind # "Ok"
             THEN Read("deep_analyze", present, <<path>>, FALSE, dirs, {}, {})
        ELSE Read("deep_analyze", present, <<path>>, TRUE, dirs,
                  {validated_path.out}, WalkDir(f, validated_path.out))

ReadAnalyze ==
    /\ \E present \in BOOLEAN, files \in ListsOf(BatchFiles) :
            /\ (~present => files = << >>)
            /\ \E r \in {handle_analyze(fs, allowed_dirs, enforce_allowlist, present, files)} :
                    rd' = Read("analyze", present, files, r.success, allowed_dirs,
                               Range(r.validated), Range(r.analyzed))
    /\ UNCHANGED <<fs, enforce_allowlist, allowed_dirs, last, ipcVars, rwVars, lockVars,
                   mainVars, guardVars, runVars, srv, tui>>

ReadReport ==
    /\ \E present \in BOOLEAN, files \in ListsOf(ReportFiles) :
            /\ (~present => files = << >>)
            /\ rd' = handle_report(fs, allowed_dirs, enforce_allowlist, present, files)
    /\ UNCHANGED <<fs, enforce_allowlist, allowed_dirs, last, ipcVars, rwVars, lockVars,
                   mainVars, guardVars, runVars, srv, tui>>

ReadBrowse ==
    /\ \E present \in BOOLEAN, path \in ReadPaths :
            rd' = handle_browse(fs, allowed_dirs, enforce_allowlist, present, path)
    /\ UNCHANGED <<fs, enforce_allowlist, allowed_dirs, last, ipcVars, rwVars, lockVars,
                   mainVars, guardVars, runVars, srv, tui>>

ReadDeepAnalyze ==
    /\ \E present \in BOOLEAN, path \in ReadPaths :
            rd' = handle_deep_analyze(fs, allowed_dirs, enforce_allowlist, present, path)
    /\ UNCHANGED <<fs, enforce_allowlist, allowed_dirs, last, ipcVars, rwVars, lockVars,
                   mainVars, guardVars, runVars, srv, tui>>

ReadInit == EntryInit /\ enforce_allowlist

ReadNext ==
    \/ IpcAddAllowedDirectory
    \/ IpcClearAllowedDirectories
    \/ ReadAnalyze
    \/ ReadReport
    \/ ReadBrowse
    \/ ReadDeepAnalyze

SpecRead == ReadInit /\ [][ReadNext]_vars

\* ------------------------------------------------------------------ plugin server loop

\* Most lines the server reads in one run.
MaxLines == 2

\* The ids a host gives its requests.
MessageIds == { "1", "2" }

\* The actions handle_message knows, and one it does not.
KnownActions ==
    { "ping", "analyze", "deep_analyze", "report", "browse", "set_theme",
      "get_capabilities", "set_allowed_directories", "add_allowed_directory",
      "clear_allowed_directories", "shutdown" }

MessageActions == KnownActions \cup { "bogus" }

Line(kind, id, action) == [kind |-> kind, id |-> id, action |-> action]

\* What stdin may deliver as a line: nothing between two newlines, bytes that
\* are not UTF-8, text that is not a PluginMessage, a message whose payload
\* is left out.
Lines ==
    { Line("empty", "", ""), Line("invalid_utf8", "", ""), Line("not_json", "", "") }
        \cup { Line("message", id, action) : id \in MessageIds, action \in MessageActions }

PluginResponse(id, success) == [id |-> id, success |-> success]

\* handle_message on a message without payload: the response.
handle_message(f, dirs, enforce, msg) ==
    IF msg.action \in {"ping", "set_theme", "get_capabilities",
                       "clear_allowed_directories", "shutdown"}
    THEN PluginResponse(msg.id, TRUE)
    ELSE IF msg.action = "browse"
         THEN PluginResponse(msg.id,
                             handle_browse(f, dirs, enforce, FALSE, << >>).success)
    ELSE PluginResponse(msg.id, FALSE)

\* The body of the loop with a line that was read: the response to send, if any.
response_to(f, dirs, enforce, line) ==
    IF line.kind = "empty" THEN None
    ELSE IF line.kind = "message" THEN Some(handle_message(f, dirs, enforce, line))
    ELSE Some(PluginResponse("unknown", FALSE))

\* run_plugin_server before the loop: the ready response is sent; a write that
\* fails ends the server with the error.
SendReady ==
    /\ srv.pc = "start"
    /\ \E write_ok \in BOOLEAN :
            srv' = IF write_ok
                   THEN [srv EXCEPT !.pc = "loop",
                                    !.out = <<PluginResponse("init", TRUE)>>]
                   ELSE [srv EXCEPT !.pc = "failed"]
    /\ UNCHANGED <<fs, enforce_allowlist, allowed_dirs, last, ipcVars, rwVars, lockVars,
                   mainVars, guardVars, runVars, rd, tui>>

\* One turn of the loop: a line is read; a line that cannot be read ends the
\* loop, an empty one is skipped, any other is answered before the next read.
ServeLine ==
    /\ srv.pc = "loop"
    /\ Len(srv.lines) < MaxLines
    /\ \E line \in Lines, write_ok \in BOOLEAN :
         \E response \in {response_to(fs, allowed_dirs, enforce_allowlist, line)} :
            /\ (line.kind \in {"empty", "invalid_utf8"} => write_ok)
            /\ srv' = IF line.kind = "invalid_utf8"
                      THEN [srv EXCEPT !.pc = "done", !.lines = Append(@, line)]
                      ELSE IF response = None
                           THEN [srv EXCEPT !.lines = Append(@, line)]
                      ELSE IF write_ok
                           THEN [srv EXCEPT !.lines = Append(@, line),
                                            !.out = @ \o <<CHOOSE r \in response : TRUE>>]
                      ELSE [srv EXCEPT !.pc = "failed", !.lines = Append(@, line)]
            /\ allowed_dirs' = IF line.kind = "message"
                                  /\ line.action = "clear_allowed_directories"
                               THEN {} ELSE allowed_dirs
    /\ UNCHANGED <<fs, enforce_allowlist, last, ipcVars, rwVars, lockVars,
                   mainVars, guardVars, runVars, rd, tui>>

\* The end of stdin ends the loop.
EndOfInput ==
    /\ srv.pc = "loop"
    /\ srv' = [srv EXCEPT !.pc = "done"]
    /\ UNCHANGED <<fs, enforce_allowlist, allowed_dirs, last, ipcVars, rwVars, lockVars,
                   mainVars, guardVars, runVars, rd, tui>>

ServerInit == Init /\ enforce_allowlist

ServerNext == SendReady \/ ServeLine \/ EndOfInput

SpecServer == ServerInit /\ [][ServerNext]_vars

\* ------------------------------------------------------------------ terminal interface: selection, scrolling

\* Longest search query typed.
MaxQuery == 2

\* usize::saturating_sub
saturating_sub(a, b) == IF a >= b THEN a - b ELSE 0

Min(a, b) == IF a <= b THEN a ELSE b

Entry(name, ext, dir) == [name |-> name, ext |-> ext, dir |-> dir]

\* What list_dir_lazy returns for the directories the user visits, sorted as
\* it sorts them: directories first, then by name. One directory is empty.
Listings ==
    { << >>,
      <<Entry(<<"B", ".", "r", "s">>, <<"r", "s">>, FALSE)>>,
      <<Entry(<<"d">>, << >>, TRUE),
        Entry(<<"A", ".", "R", "S">>, <<"R", "S">>, FALSE),
        Entry(<<"a", "b", ".", "r", "s">>, <<"r", "s">>, FALSE),
        Entry(<<"b", ".", "t", "o">>, <<"t", "o">>, FALSE),
        Entry(<<"b", "a">>, << >>, FALSE)>> }

\* App.filter_extensions, shortened to two letters each.
filter_extensions == << <<"r", "s">>, <<"m", "d">>, <<"t", "o">>, <<"j", "s">>, <<"t", "x">> >>

\* The characters typed into the search.
SearchChars == { "a", "B", "y" }

\* Heights of the terminal, in rows.
TerminalHeights == { 0, 10, 12, 13, 14, 15, 24 }

\* Page sizes handed to page_up and page_down.
PageSizes == { 0, 1, 2, 5 }

\* Whether the build checks arithmetic overflow (debug) or wraps (release).
Builds == { "debug", "release" }

\* FileFilter::matches
matches(filter_index, p) ==
    \/ filter_index = 0
    \/ p.dir
    \/ /\ p.ext # << >>
       /\ ToLowercase(p.ext) = ToLowercase(filter_extensions[filter_index])

\* adjust_scroll; with a viewport of no rows, viewport_height - 1 overflows:
\* a panic where overflow is checked, usize::MAX elsewhere, which
\* saturating_sub takes from selected leaving 0.
adjust_scroll(a) ==
    IF a.selected < a.scroll_offset THEN [a EXCEPT !.scroll_offset = a.selected]
    ELSE IF a.selected >= a.scroll_offset + a.viewport_height
         THEN IF a.viewport_height = 0
              THEN IF a.build = "debug" THEN [a EXCEPT !.panicked = TRUE]
                   ELSE [a EXCEPT !.scroll_offset = 0]
              ELSE [a EXCEPT !.scroll_offset =
                         saturating_sub(a.selected, a.viewport_height - 1)]
    ELSE a

\* The entries that pass the filter and the search.
Filtered(a) ==
    SelectSeq(a.all_entries,
              LAMBDA p : /\ matches(a.filter_index, p)
                         /\ \/ a.search_query = << >>
                            \/ Contains(ToLowercase(p.name), ToLowercase(a.search_query)))

\* apply_filters that leaves the selection where it was.
apply_filters_unclamped(a) ==
    adjust_scroll([a EXCEPT !.filtered_entries = Filtered(a)])

\* apply_filters
apply_filters(a) ==
    LET len == Len(Filtered(a))
    IN  adjust_scroll([a EXCEPT !.filtered_entries = Filtered(a),
                                !.selected = IF a.selected >= len
                                             THEN saturating_sub(len, 1) ELSE @])

\* refresh_entries with the listing of the current directory.
refresh_entries(a, entries) ==
    LET filtered == apply_filters([a EXCEPT !.all_entries = entries])
    IN  IF filtered.panicked THEN filtered
        ELSE [filtered EXCEPT !.selected = 0, !.scroll_offset = 0]

\* move_selection
move_selection(a, delta) ==
    LET len == Len(a.filtered_entries)
    IN  IF len = 0 THEN a
        ELSE adjust_scroll([a EXCEPT !.selected =
                                IF delta > 0 THEN Min(a.selected + delta, len - 1)
                                ELSE saturating_sub(a.selected, -delta)])

goto_start(a) == [a EXCEPT !.selected = 0, !.scroll_offset = 0]

goto_end(a) ==
    IF a.filtered_entries # << >>
    THEN adjust_scroll([a EXCEPT !.selected = Len(a.filtered_entries) - 1])
    ELSE a

page_down(a, page_size) ==
    LET len == Len(a.filtered_entries)
    IN  IF len = 0 THEN a
        ELSE adjust_scroll([a EXCEPT !.selected = Min(a.selected + page_size, len - 1)])

page_up(a, page_size) ==
    adjust_scroll([a EXCEPT !.selected = saturating_sub(a.selected, page_size)])

cycle_filter(a) ==
    apply_filters([a EXCEPT !.filter_index = (@ + 1) % (Len(filter_extensions) + 1)])

handle_search_input(a, c) ==
    apply_filters([a EXCEPT !.search_query = Append(@, c)])

handle_search_backspace(a) ==
    apply_filters([a EXCEPT !.search_query =
                        IF @ = << >> THEN @ ELSE SubSeq(@, 1, Len(@) - 1)])

clear_search(a) == apply_filters([a EXCEPT !.search_query = << >>])

set_viewport_height(a, height) ==
    adjust_scroll([a EXCEPT !.viewport_height = saturating_sub(height, 2)])

\* A call on the App: the state it leaves, and which call it was.
Called(a, op, arg) ==
    /\ ~tui.panicked
    /\ tui' = [a EXCEPT !.op = op, !.arg = arg]
    /\ UNCHANGED <<fs, enforce_allowlist, allowed_dirs, last, ipcVars, rwVars, lockVars,
                   mainVars, guardVars, runVars, rd, srv>>

MoveSelection ==
    \E delta \in {-1, 1} : Called(move_selection(tui, delta), "move_selection", delta)

GotoStart == Called(goto_start(tui), "goto_start", 0)

GotoEnd == Called(goto_end(tui), "goto_end", 0)

PageDown ==
    \E page_size \in PageSizes : Called(page_down(tui, page_size), "page_down", page_size)

PageUp ==
    \E page_size \in PageSizes : Called(page_up(tui, page_size), "page_up", page_size)

CycleFilter == Called(cycle_filter(tui), "cycle_filter", 0)

HandleSearchInput ==
    /\ Len(tui.search_query) < MaxQuery
    /\ \E c \in SearchChars : Called(handle_search_input(tui, c), "handle_search_input", 0)

HandleSearchBackspace == Called(handle_search_backspace(tui), "handle_search_backspace", 0)

ClearSearch == Called(clear_search(tui), "clear_search", 0)

\* select_current on a directory, go_up, go_home, jump_to_bookmark: the
\* query is cleared and the entries of the new directory are listed.
RefreshEntries ==
    \E entries \in Listings :
        Called(refresh_entries([tui EXCEPT !.search_query = << >>], entries),
               "refresh_entries", 0)

\* run_app at the top of its loop, with the terminal as high as it is now.
SetViewportHeight ==
    \E height \in TerminalHeights :
        Called(set_viewport_height(tui, saturating_sub(height, 10)),
               "set_viewport_height", height)

\* App::new in a directory with one of the listings.
TuiInit ==
    /\ Init
    /\ enforce_allowlist
    /\ fs = FileSystem(PathString(FALSE, <<nF>>))

TuiStart ==
    /\ tui.op = "none"
    /\ \E entries \in Listings, build \in Builds :
         tui' = [all_entries |-> entries, filtered_entries |-> entries, selected |-> 0,
                 viewport_height |-> 20, scroll_offset |-> 0, search_query |-> << >>,
                 filter_index |-> 0, build |-> build, panicked |-> FALSE,
                 op |-> "new", arg |-> 0]
    /\ UNCHANGED <<fs, enforce_allowlist, allowed_dirs, last, ipcVars, rwVars, lockVars,
                   mainVars, guardVars, runVars, rd, srv>>

TuiNext ==
    \/ TuiStart
    \/ MoveSelection
    \/ GotoStart
    \/ GotoEnd
    \/ PageDown
    \/ PageUp
    \/ CycleFilter
    \/ HandleSearchInput
    \/ HandleSearchBackspace
    \/ ClearSearch
    \/ RefreshEntries
    \/ SetViewportHeight

SpecTui == TuiInit /\ [][TuiNext]_vars

\* ------------------------------------------------------------------ properties

Validated == last.op = "validate"

\* The path string has a segment that is exactly "..".
HasParentDir(path_str) == DotDot \in Range(SplitFrom(path_str, 1, << >>))

\* The canonical form of an existing path.
CanonicalForm(path_str) == Canonicalize(fs, ParsePath(path_str))

Under(canonical, dirs) == \E d \in dirs : StartsWith(canonical, d)

\* Where a canonical path leads when every symbolic link on it is followed;
\* names below a missing name are taken as written.
RECURSIVE Follow(_, _, _, _)
Follow(f, cur, segs, fuel) ==
    IF segs = << >> THEN [ok |-> TRUE, path |-> cur]
    ELSE LET s == Head(segs)
             rest == Tail(segs)
             child == Append(cur, s)
         IN  IF child \notin DOMAIN f THEN [ok |-> TRUE, path |-> cur \o segs]
             ELSE IF f[child].kind = "link"
                  THEN IF fuel = 0 THEN Failed
                       ELSE LET t == ParsePath(f[child].target)
                            IN  Follow(f, IF t.root THEN << >> ELSE cur,
                                       t.segs \o rest, fuel - 1)
             ELSE Follow(f, child, rest, fuel)

Location(canonical) == Follow(fs, << >>, canonical, MaxLinks)

\* C1: every validated path with a ".." component is rejected with
\* PathTraversal, whatever the allowlist, the enforcement and the filesystem.
C1_ParentDirRejected ==
    (Validated /\ HasParentDir(last.path)) => last.kind = "PathTraversal"

\* C1 witness: a ".." path was rejected by an enforcing validator that holds
\* allowed directories.
C1_Witness ==
    /\ Validated /\ HasParentDir(last.path) /\ last.kind = "PathTraversal"
    /\ enforce_allowlist /\ allowed_dirs # {}

\* C2: with enforcement on, every path validate_path returns leads, after all
\* symbolic links are followed, to a location under a member of the allowlist.
C2_AcceptedResolvesInside ==
    (Validated /\ enforce_allowlist /\ last.kind = "Ok") =>
        /\ Location(last.out).ok
        /\ Under(Location(last.out).path, allowed_dirs)

\* The symbolic links of the filesystem that lie under an allowed directory.
LinksInside == { node \in DOMAIN fs : fs[node].kind = "link" /\ Under(node, allowed_dirs) }

\* C3: validating the path of a symbolic link that lies in an allowed directory
\* and points to an existing file outside every allowed directory fails with
\* NotInAllowedDirectory.
C3_SymlinkEscapeRejected ==
    (/\ Validated /\ enforce_allowlist
     /\ \E node \in LinksInside : last.path = PathString(TRUE, node)
     /\ CanonicalForm(last.path).ok
     /\ ~Under(CanonicalForm(last.path).path, allowed_dirs))
    => last.kind = "NotInAllowedDirectory"

\* C3 witness: /A/l pointing to /B/g was validated with only /A allowed.
C3_Witness ==
    /\ Validated /\ enforce_allowlist /\ allowed_dirs = {<<nA>>}
    /\ last.path = PathString(TRUE, <<nA, nL>>)
    /\ CanonicalForm(last.path).ok /\ CanonicalForm(last.path).path = <<nB, nG>>
    /\ last.kind = "NotInAllowedDirectory"

\* C4 as claimed: every path whose canonical form is under a member of a
\* non-empty allowlist validates, with enforcement on, to a path under that member.
C4_InsideAccepted_Claimed ==
    (/\ Validated /\ enforce_allowlist /\ allowed_dirs # {}
     /\ CanonicalForm(last.path).ok
     /\ Under(CanonicalForm(last.path).path, allowed_dirs))
    => (last.kind = "Ok" /\ Under(last.out, allowed_dirs))

\* C4 amended: every path that passes the traversal check and whose canonical
\* form is under a member of a non-empty allowlist validates, with enforcement
\* on, to its canonical form, which starts with that member.
C4_InsideAccepted ==
    (/\ Validated /\ enforce_allowlist /\ allowed_dirs # {}
     /\ ~check_path_traversal(last.path)
     /\ CanonicalForm(last.path).ok
     /\ Under(CanonicalForm(last.path).path, allowed_dirs))
    => /\ last.kind = "Ok"
       /\ last.out = CanonicalForm(last.path).path
       /\ \A d \in allowed_dirs :
            StartsWith(CanonicalForm(last.path).path, d) => StartsWith(last.out, d)

\* C4 witness: a file below an allowed directory was accepted.
C4_Witness ==
    /\ Validated /\ enforce_allowlist /\ last.kind = "Ok"
    /\ \E d \in allowed_dirs : StartsWith(last.out, d) /\ last.out # d

\* C5 as claimed: every path whose canonical form is outside every member of a
\* non-empty allowlist fails, with enforcement on, with NotInAllowedDirectory.
C5_OutsideRejected_Claimed ==
    (/\ Validated /\ enforce_allowlist /\ allowed_dirs # {}
     /\ CanonicalForm(last.path).ok
     /\ ~Under(CanonicalForm(last.path).path, allowed_dirs))
    => last.kind = "NotInAllowedDirectory"

\* C5 amended: every path that passes the traversal check and whose canonical
\* form is outside every member of a non-empty allowlist fails, with
\* enforcement on, with NotInAllowedDirectory.
C5_OutsideRejected ==
    (/\ Validated /\ enforce_allowlist /\ allowed_dirs # {}
     /\ ~check_path_traversal(last.path)
     /\ CanonicalForm(last.path).ok
     /\ ~Under(CanonicalForm(last.path).path, allowed_dirs))
    => last.kind = "NotInAllowedDirectory"

\* C5 witness: an existing directory above the allowed one was rejected.
C5_Witness ==
    /\ Validated /\ enforce_allowlist /\ allowed_dirs # {}
    /\ last.path = PathString(TRUE, << >>)
    /\ last.kind = "NotInAllowedDirectory"

\* C6 as claimed: with enforcement on and an empty allowlist every validation
\* fails with NoAllowedDirectories.
C6_FailClosed_Claimed ==
    (Validated /\ enforce_allowlist /\ allowed_dirs = {})
    => last.kind = "NoAllowedDirectories"

\* C6 amended: with enforcement on and an empty allowlist no validation returns
\* Ok, and every path that passes the traversal check and the canonicalization
\* step (directly or through its parent) fails with NoAllowedDirectories.
C6_FailClosed ==
    (Validated /\ enforce_allowlist /\ allowed_dirs = {})
    => /\ last.kind # "Ok"
       /\ (~check_path_traversal(last.path) /\ canonical_of(fs, last.path).kind = "Ok")
            => last.kind = "NoAllowedDirectories"

\* C6 witness: an existing file was refused for want of allowed directories.
C6_Witness ==
    /\ Validated /\ enforce_allowlist /\ allowed_dirs = {}
    /\ CanonicalForm(last.path).ok /\ fs[CanonicalForm(last.path).path].kind = "file"
    /\ last.kind = "NoAllowedDirectories"

\* The allowlists the user's selections can produce on this filesystem.
Allowlists ==
    SUBSET { Canonicalize(fs, ParsePath(d)).path :
             d \in { e \in DirInputs : Canonicalize(fs, ParsePath(e)).ok } }

\* The path is accepted under some allowlist, so some earlier call may have
\* accepted it.
Acceptable(path_str) ==
    \E dirs \in Allowlists : validate_path(fs, dirs, TRUE, path_str).kind = "Ok"

\* C7: right after clear_allowed_directories the allowlist is empty, and while
\* it stays empty (until an add succeeds) an enforcing validator answers
\* NoAllowedDirectories for every path it accepted, or could have accepted,
\* under any earlier allowlist.
C7_ClearedRejectsAccepted ==
    /\ last.op = "clear" => (allowed_dirs = {} /\ Cardinality(allowed_dirs) = 0)
    /\ (Validated /\ enforce_allowlist /\ allowed_dirs = {} /\ Acceptable(last.path))
        => last.kind = "NoAllowedDirectories"

\* C7 witness: with the allowlist empty, a path /A would admit was refused.
C7_Witness ==
    /\ Validated /\ enforce_allowlist /\ allowed_dirs = {}
    /\ validate_path(fs, {<<nA>>}, TRUE, last.path).kind = "Ok"
    /\ last.kind = "NoAllowedDirectories"

EncodedTraversals ==
    { <<"%", "2", "e", "%", "2", "e">>,
      <<".", ".", "%", "2", "f">>,
      <<".", ".", "%", "5", "c">>,
      <<".", ".", "\\">> }

\* C8: every path string that holds an encoded traversal sequence, in any
\* letter case, is rejected with PathTraversal.
C8_EncodedRejected ==
    (Validated /\ \E e \in EncodedTraversals : Contains(ToLowercase(last.path), e))
    => last.kind = "PathTraversal"

\* C9: the checks run in the order traversal syntax, canonicalization,
\* allowlist, and the first that fails gives the error: a ".." path is a
\* PathTraversal whatever the filesystem and the allowlist, a canonicalization
\* error is reported only for a path that passed the syntax check and before the
\* allowlist is looked at, an allowlist error only for a path that passed both.
C9_FixedCheckOrder ==
    Validated =>
        /\ HasParentDir(last.path) => last.kind = "PathTraversal"
        /\ last.kind \in {"IoError", "InvalidPath"} => ~check_path_traversal(last.path)
        /\ last.kind \in {"NoAllowedDirectories", "NotInAllowedDirectory"}
            => (~check_path_traversal(last.path) /\ canonical_of(fs, last.path).kind = "Ok")
        /\ (~check_path_traversal(last.path) /\ canonical_of(fs, last.path).kind # "Ok")
            => last.kind = canonical_of(fs, last.path).kind
        /\ (enforce_allowlist /\ allowed_dirs = {<<nA>>}) =>
            /\ last.path = PathString(TRUE, <<nA, nF>>)
                => (last.kind = "Ok" /\ last.out = <<nA, nF>>)
            /\ last.path = PathString(TRUE, <<nA, DotDot>>) => last.kind = "PathTraversal"
            /\ last.path = PathString(TRUE, <<nB, nG>>)
                => last.kind = "NotInAllowedDirectory"

\* C9 witness: a path that does not resolve gave IoError although the
\* enforcing validator had no allowed directory.
C9_Witness ==
    /\ Validated /\ enforce_allowlist /\ allowed_dirs = {}
    /\ last.kind = "IoError"

\* C10: add_allowed_directory on a path that cannot be canonicalized returns
\* IoError and leaves the allowlist as it was; on success the canonical form
\* joins the allowlist and no member is removed.
C10_AddAllowedDirectory ==
    [][last'.op = "add" =>
        IF Canonicalize(fs, ParsePath(last'.path)).ok
        THEN /\ last'.kind = "Ok"
             /\ Canonicalize(fs, ParsePath(last'.path)).path \in allowed_dirs'
             /\ allowed_dirs \subseteq allowed_dirs'
             /\ allowed_dirs' \ allowed_dirs
                    \subseteq {Canonicalize(fs, ParsePath(last'.path)).path}
        ELSE /\ last'.kind = "IoError"
             /\ allowed_dirs' = allowed_dirs]_vars

\* C10 witness: an add failed with IoError while the allowlist held entries.
C10_Witness ==
    /\ last.op = "add" /\ last.kind = "IoError"
    /\ allowed_dirs # {}

\* C11: after any sequence of add, clear and plugin set/add/clear operations
\* every member of the allowlist is the canonical form of a path that was
\* given (it exists, and resolving it again gives the same path), and the
\* allowlist is empty at construction.
C11_AllowlistCanonical ==
    /\ \A d \in allowed_dirs :
            /\ Canonicalize(fs, [root |-> TRUE, segs |-> d]) = [ok |-> TRUE, path |-> d]
            /\ \E given \in DirInputs : CanonicalForm(given) = [ok |-> TRUE, path |-> d]
    /\ (last.op = "new" /\ IpcIdle => allowed_dirs = {})

\* A directory given through a symbolic link is held under its resolved
\* name, next to another one, after a plugin set message.
C11_Witness ==
    /\ ipc.action = "set"
    /\ PathString(TRUE, <<nA, nL>>) \in Range(ipc.payload)
    /\ allowed_dirs = {<<nB, nG>>, <<nA>>}

\* The validation of every file of an analyze message, in order.
BatchKinds(files) ==
    [i \in 1..Len(files) |->
        validate_path(fs, allowed_dirs, enforce_allowlist, files[i])]

FirstInvalid(kinds) ==
    CHOOSE i \in 1..Len(kinds) :
        /\ kinds[i].kind # "Ok"
        /\ \A j \in 1..(i - 1) : kinds[j].kind = "Ok"

\* C13: an analyze message with a list of files gets the validated paths of
\* all of them only when every one validates; otherwise the response is the
\* error of the first invalid one, with no validated path and no file
\* analyzed.
C13_BatchAllOrNothing ==
    [][(ipc'.action = "analyze" /\ ipc'.present /\ ipc'.payload # << >>
            /\ UNCHANGED <<allowed_dirs, last>>)
        => LET kinds == BatchKinds(ipc'.payload)
           IN  IF \A i \in 1..Len(kinds) : kinds[i].kind = "Ok"
               THEN ipc'.validated = [i \in 1..Len(kinds) |-> kinds[i].out]
               ELSE /\ ~ipc'.success
                    /\ ipc'.error = kinds[FirstInvalid(kinds)].kind
                    /\ ipc'.validated = << >>
                    /\ ipc'.analyzed = << >>]_vars

\* A batch whose first file validates and whose second does not.
C13_Witness ==
    /\ ipc.action = "analyze"
    /\ Len(ipc.payload) = 2
    /\ BatchKinds(ipc.payload)[1].kind = "Ok"
    /\ BatchKinds(ipc.payload)[2].kind = "NotInAllowedDirectory"
    /\ ipc.error = "NotInAllowedDirectory"
    /\ ipc.analyzed = << >>

\* C14: without enforcement validate_path never answers with an allowlist
\* error whatever the allowlist holds, a path without ".." that resolves
\* validates to its canonical form, and the traversal check and the
\* canonicalization still decide: ".." is rejected, a failed resolution is
\* the error returned.
C14_PermissiveSkipsAllowlist ==
    (Validated /\ ~enforce_allowlist) =>
        /\ last.kind \notin {"NoAllowedDirectories", "NotInAllowedDirectory"}
        /\ (HasParentDir(last.path) => last.kind = "PathTraversal")
        /\ (~HasParentDir(last.path) /\ CanonicalForm(last.path).ok
                => last.kind = "Ok" /\ last.out = CanonicalForm(last.path).path)
        /\ (~check_path_traversal(last.path)
                => last.kind = canonical_of(fs, last.path).kind)

\* An existing file validates with an empty allowlist, enforcement off.
C14_Witness ==
    /\ Validated
    /\ ~enforce_allowlist
    /\ allowed_dirs = {}
    /\ last.path = PathString(TRUE, <<nB, nG>>)
    /\ last.kind = "Ok"

\* The caller is between taking and releasing the write lock.
InWrite(t) == threads[t].pc \in {"add_insert", "add_unlock", "clear_clear", "clear_unlock"}

\* The caller is inside the membership check.
InRead(t) == threads[t].pc \in {"check_is_empty", "check_iter", "check_unlock"}

\* C12: under every interleaving a caller that mutates the allowlist is alone
\* (no other mutation, no membership check in flight), the allowlist does
\* not change during a membership check, and the answer of a membership
\* check is the answer for the allowlist as it was when the check began.
C12_MutationsExclusive ==
    \A t \in Threads :
        /\ InWrite(t) => \A u \in Threads \ {t} : ~InWrite(u) /\ ~InRead(u)
        /\ InRead(t) => allowed_dirs = threads[t].snap
        /\ At(t, "check_unlock") =>
                threads[t].result =
                    check_allowed_directory(threads[t].snap, threads[t].canonical)

\* Two membership checks in flight at once, against a non-empty allowlist,
\* one of them answered.
C12_Witness ==
    /\ allowed_dirs # {}
    /\ At(1, "check_iter")
    /\ At(2, "check_unlock")
    /\ threads[2].result = "NotInAllowedDirectory"

\* C15: acquire on a path that does not exist answers PathNotFound, builds
\* no lock, runs no command, creates no directory and leaves the host as it
\* was.
C15_MissingPathFirst ==
    [][(acq'.op = "acquire" /\ ~Exists(acq'.target))
        => /\ acq'.result = "PathNotFound"
           /\ acq'.log = << >>
           /\ guard' = NoGuard
           /\ sys' = sys]_vars

\* A missing path whose name ends in an image extension was asked for.
C15_Witness ==
    /\ acq.op = "acquire"
    /\ acq.target.type = "none"
    /\ is_block_device_or_image(acq.target)
    /\ acq.result = "PathNotFound"

\* The name ends in one of the known image extensions, in any case.
KnownImageName(target) ==
    \E ext \in ImageExtensions :
        /\ Len(target.name) > Len(ext) + 1
        /\ target.name[Len(target.name) - Len(ext)] = "."
        /\ ToLowercase(SubSeq(target.name, Len(target.name) - Len(ext) + 1,
                               Len(target.name))) = ext

\* C16 as stated: a block device or a path with an image extension gets
\* LoopDevice, every directory MountReadOnly, every regular file
\* FileReadOnly.
C16_LevelByType_Claimed ==
    (acq.op = "acquire" /\ Exists(acq.target)) =>
        /\ (acq.target.type = "block" \/ KnownImageName(acq.target))
                => acq.lock_level = "LoopDevice"
        /\ acq.target.type = "dir" => acq.lock_level = "MountReadOnly"
        /\ acq.target.type = "file" => acq.lock_level = "FileReadOnly"

\* C16: the level is fixed by the target: a block device or a path with an
\* image extension gets LoopDevice; of the others, a directory gets
\* MountReadOnly and a regular file FileReadOnly.
C16_LevelByType ==
    (acq.op = "acquire" /\ Exists(acq.target)) =>
        IF acq.target.type = "block" \/ KnownImageName(acq.target)
        THEN acq.lock_level = "LoopDevice"
        ELSE /\ acq.target.type = "dir" => acq.lock_level = "MountReadOnly"
             /\ acq.target.type = "file" => acq.lock_level = "FileReadOnly"

\* A directory whose name ends in an image extension got LoopDevice.
C16_Witness ==
    /\ acq.op = "acquire"
    /\ acq.target.type = "dir"
    /\ KnownImageName(acq.target)
    /\ acq.lock_level = "LoopDevice"

\* C17 as stated: when losetup or mount is refused for lack of privilege,
\* acquire returns an active lock with neither mechanism recorded.
C17_PrivilegeNeverFails ==
    (acq.op = "acquire" /\ Exists(acq.target) /\ acq.outcome.cause = "privilege") =>
        /\ acq.result = "Ok"
        /\ acq.lock.is_active
        /\ acq.lock.loop_device = None
        /\ acq.lock.mount_point = None

\* The commands of a log that ended as told.
RanWith(log, cmd, ok) == \E i \in 1..Len(log) : log[i] = Ran(cmd, ok)

Commands(log) == [i \in 1..Len(log) |-> log[i].cmd]

\* C19: releasing a lock runs umount and remove_dir if it has a mount point
\* and then losetup -d if it has a loop device, in this order, whatever the
\* earlier commands answered, and ends with no lock.
C19_TeardownOrder ==
    acq.op = "release" =>
        /\ Commands(acq.log) =
                (IF acq.lock.mount_point # None THEN <<"umount", "remove_dir">> ELSE << >>)
                \o (IF acq.lock.loop_device # None THEN <<"losetup -d">> ELSE << >>)
        /\ guard = NoGuard

\* A lock with a mount point and a loop device was released, umount failed.
C19_Witness ==
    /\ acq.op = "release"
    /\ acq.lock.mount_point # None
    /\ acq.lock.loop_device # None
    /\ acq.log[1] = Ran("umount", FALSE)
    /\ Len(acq.log) = 3

\* C20 as stated: once an acquisition has failed or the lock has been
\* released, no directory that setup_ro_mount created is left.
C20_NoTempDirLeft ==
    ~guard.held => sys.tempdirs = {}

\* ------------------------------------------------------------------ plugin token, start of the program: properties

\* The characters a token may be made of: [A-Za-z0-9-_.=+].
TokenCharset == { "a", "f", "z", "Z", "9", "-", "_", ".", "=", "+" }

InCharset(token) == \A i \in 1..Len(token) : token[i].c \in TokenCharset

\* The number of characters of a token.
RECURSIVE CharCount(_)
CharCount(token) ==
    IF token = << >> THEN 0 ELSE Head(token).n + CharCount(Tail(token))

\* C25: the validator accepts a token iff its length is between 32 and 1024
\* inclusive and every character is in [A-Za-z0-9-_.=+]; a shorter token is
\* rejected as too short, a longer one as too long, a token of valid length
\* with another character as invalid characters; validating the same token
\* again gives the same verdict.
C25_TokenVerdict ==
    tok.calls >= 1 =>
        LET n == StrLen(tok.token)
        IN  /\ tok.verdict = "Ok" <=> (n >= 32 /\ n <= 1024 /\ InCharset(tok.token))
            /\ tok.verdict = "Ok"
                   <=> /\ CharCount(tok.token) >= 32
                       /\ CharCount(tok.token) <= 1024
                       /\ InCharset(tok.token)
            /\ n < 32 => tok.verdict = "TooShort"
            /\ n > 1024 => tok.verdict = "TooLong"
            /\ (n >= 32 /\ n <= 1024 /\ ~InCharset(tok.token))
                   => tok.verdict = "InvalidCharacters"
            /\ tok.verdict = tok.first

C25_Witness ==
    /\ tok.calls = 2
    /\ tok.token = <<Run("a", 31), Run("+", 1)>>
    /\ tok.verdict = "Ok"

Happened(event) == \E i \in 1..Len(proc.events) : proc.events[i] = event

Before(e1, e2) ==
    \E i, j \in 1..Len(proc.events) :
        i < j /\ proc.events[i] = e1 /\ proc.events[j] = e2

TokenPassed ==
    /\ proc.plugin_token # None
    /\ \A token \in proc.plugin_token :
           StrLen(token) >= 32 /\ StrLen(token) <= 1024 /\ InCharset(token)

HexDigits == { "a", "f", "9" }

IsHex(token) == \A i \in 1..Len(token) : token[i].c \in HexDigits

\* C27: plugin-mode activation rejects every token that is not hexadecimal: a
\* token of sufficient length with a non-hex character makes the process exit
\* unsuccessfully without starting the IPC server, and a 64-character hex
\* token is accepted and the ready message sent.
C27_NonHexRejected ==
    (proc.started /\ proc.plugin_mode /\ proc.plugin_token # None) =>
        \A token \in proc.plugin_token :
            /\ ~IsHex(token) => (proc.exit = "error" /\ ~Happened("ipc ready"))
            /\ (IsHex(token) /\ CharCount(token) = 64) => Happened("ipc ready")

AuthDisabledFlag ==
    /\ proc.disable_auth # None
    /\ \A v \in proc.disable_auth : ToLowercase(v) \in { <<"t", "r", "u", "e">>, <<"1">>, <<"y", "e", "s">> }

ProductionLike == detect(proc.environment, proc.cloud) \in {"Production", "Staging"}

\* C28: in a production-like environment with authentication disabled the
\* program, in every startup mode, ends in the SECURITY VIOLATION panic
\* before any config load, mode or IPC server start; in Development the same
\* flag lets it start with auth disabled.
C28_ProductionRefusesDisabledAuth ==
    (proc.started /\ AuthDisabledFlag) =>
        /\ ProductionLike
               => /\ proc.exit = "panic"
                  /\ Happened("panic: SECURITY VIOLATION")
                  /\ ~Happened("config load")
                  /\ ~Happened("ipc ready")
                  /\ ~Happened("gui") /\ ~Happened("tui") /\ ~Happened("cli")
        /\ (~ProductionLike /\ ~proc.plugin_mode)
               => /\ proc.exit # "panic"
                  /\ Happened("auth disabled")

\* ------------------------------------------------------------------ ReadOnlyLock: release again, lifecycle

\* The hosts one run of the release logic can leave behind.
SingleRelease(lock, s) ==
    { drop(lock, s, umount_ok, detach_ok).sys :
        umount_ok \in UmountOutcomes(lock, s), detach_ok \in DetachOutcomes(lock, s) }

Released == acq.op \in {"release", "release again"}

\* The mount and the loop device the guard records are not there any more.
AlreadyGone(lock, s) ==
    /\ lock.mount_point \cap s.mounts = {}
    /\ lock.loop_device \cap s.loops = {}

\* C21: the release logic never panics, run on a guard for the second time
\* or on a guard whose mount and loop device are already gone, and it leaves
\* the host in a state a single release leaves it in.
C21_ReleaseIdempotent ==
    Released =>
        /\ ~acq.panicked
        /\ sys \in SingleRelease(acq.lock, acq.before)
        /\ AlreadyGone(acq.lock, acq.before)
               => /\ sys.mounts = acq.before.mounts
                  /\ sys.loops = acq.before.loops

C21_Witness ==
    /\ acq.op = "release again"
    /\ acq.lock.mount_point # None
    /\ acq.lock.loop_device # None
    /\ acq.before.mounts # {}
    /\ acq.before.loops # {}
    /\ acq.log = <<Ran("umount", FALSE), Ran("remove_dir", FALSE), Ran("losetup -d", FALSE)>>
    /\ sys = [loops |-> {}, tempdirs |-> {}, mounts |-> {}]

\* C22: acquire hands out a guard only in the Active state, and a failed
\* acquisition (PathNotFound, LoopDeviceError, MountError) leaves no guard,
\* no loop device attached and no mount established.
C22_Lifecycle ==
    /\ guard.held => guard.is_active
    /\ acq.op = "acquire" =>
        /\ acq.result = "Ok" => (guard.held /\ guard.is_active /\ guard.path = acq.target)
        /\ acq.result # "Ok" =>
            /\ acq.result \in {"PathNotFound", "LoopDeviceError", "MountError"}
            /\ guard = NoGuard
            /\ sys.loops = acq.before.loops
            /\ sys.mounts = acq.before.mounts
    /\ acq.op = "release" => guard = NoGuard

C22_Witness ==
    /\ acq.op = "acquire"
    /\ acq.result = "LoopDeviceError"
    /\ acq.before.loops # {}
    /\ guard = NoGuard

\* ------------------------------------------------------------------ open_readonly, WriteGuard: properties

Canonical(path_str) == Canonicalize(fs, ParsePath(path_str))

\* C23: open_readonly returns a handle only for a target whose canonical path
\* is equal to or nested under the canonical locked path; a target that
\* resolves outside the locked root fails with WriteAttemptBlocked and
\* nothing is opened.
C23_OpenWithinLock ==
    ro.op = "open_readonly" =>
        /\ ro.kind = "Ok" <=> ro.handle # None
        /\ \A opened \in ro.handle :
               /\ Canonical(ro.lock).ok
               /\ opened = Canonical(ro.path).path
               /\ \/ opened = Canonical(ro.lock).path
                  \/ /\ Len(opened) > Len(Canonical(ro.lock).path)
                     /\ SubSeq(opened, 1, Len(Canonical(ro.lock).path))
                            = Canonical(ro.lock).path
        /\ ( /\ Canonical(ro.path).ok
             /\ Canonical(ro.lock).ok
             /\ ~StartsWith(Canonical(ro.path).path, Canonical(ro.lock).path) )
               => (ro.kind = "WriteAttemptBlocked" /\ ro.handle = None)

C23_Witness ==
    /\ ro.op = "open_readonly"
    /\ ro.lock = PathString(TRUE, <<nA>>)
    /\ ro.path = PathString(TRUE, <<nA, DotDot, nB, nG>>)
    /\ ro.kind = "WriteAttemptBlocked"

\* The place a write to the path would go: the path resolved, or its parent
\* resolved and the new name in it.
WriteTarget(path_str) == canonical_of(fs, path_str)

NestedUnderLocked(path_str, locked_paths) ==
    \E locked \in locked_paths :
        /\ Canonical(locked).ok
        /\ WriteTarget(path_str).kind = "Ok"
        /\ StartsWith(WriteTarget(path_str).out, Canonical(locked).path)

\* C24: check_write panics with the boxed WRITE ATTEMPT BLOCKED diagnostic
\* for every path nested under one of its locked paths, a write target that
\* does not exist yet included.
C24_WriteBlockedDiagnostic ==
    (ro.op = "check_write" /\ NestedUnderLocked(ro.path, ro.locked))
        => ro.kind = "WRITE ATTEMPT BLOCKED"

\* ------------------------------------------------------------------ analysis runs: properties

\* The file is the source or lies under the source directory.
OfSource(file) ==
    /\ Canonical(run.source).ok
    /\ StartsWith(file, Canonical(run.source).path)

\* C29: for every CLI run with the read-only lock on, whatever the source and
\* the destination, the source file and every file under the source
\* directory has the same content after the run as before it.
C29_SourceNeverMutated ==
    (run.mode = "cli" /\ run.ro_lock) =>
        \A file \in disk.overwritten : ~OfSource(file)

Position(event) ==
    IF \E i \in 1..Len(run.events) : run.events[i] = event
    THEN CHOOSE i \in 1..Len(run.events) : run.events[i] = event
    ELSE 0

Reads == {"preview source", "list source", "read source"}

\* C30: in every workflow that locks (CLI with ro_lock on, TUI, GUI) the lock
\* is acquired before anything of the source is read, the guard is held
\* until analysis and export are over, it is released on every exit path,
\* and after a failed acquire no analysis runs.
C30_LockBracketsRun ==
    (run.mode # "none" /\ run.ro_lock) =>
        /\ \A i \in 1..Len(run.events) :
               run.events[i] \in Reads
                   => (Position("acquire") > 0 /\ Position("acquire") < i)
        /\ Position("acquire") > 0
               => /\ run.events[Len(run.events)] = "release"
                  /\ \A i \in 1..Len(run.events) :
                         run.events[i] \in {"read source", "write dest", "export failed"}
                             => i < Position("release")
        /\ Position("acquire failed") > 0
               => /\ Position("read source") = 0
                  /\ Position("write dest") = 0
                  /\ run.result # "Ok"

\* ------------------------------------------------------------------ open_readonly: the handle; check_write: no return

\* C34: open_readonly never follows a symbolic link in the last place of the
\* path and never gives a handle that can write: a target whose last
\* component is a link is refused with an error even when the link points
\* inside the locked root, and the file opened is the one whose containment
\* was checked.
C34_NoFollowReadOnly ==
    ro.op = "open_readonly" =>
        /\ IsSymlink(fs, ParsePath(ro.path)) => (ro.kind # "Ok" /\ ro.handle = None)
        /\ ro.kind = "Ok" =>
               /\ ro.access = {"read"}
               /\ ro.handle = Some(Canonical(ro.path).path)
               /\ StartsWith(Canonical(ro.path).path, Canonical(ro.lock).path)
        /\ ro.kind # "Ok" => ro.access = {}

C34_Witness ==
    /\ ro.op = "open_readonly"
    /\ ro.lock = PathString(TRUE, <<nA>>)
    /\ ro.path = PathString(TRUE, <<nA, nL>>)
    /\ Canonical(ro.path).ok
    /\ StartsWith(Canonical(ro.path).path, Canonical(ro.lock).path)
    /\ ro.kind = "IoError"

CoveredByLock ==
    \E locked \in ro.locked :
        /\ Canonical(locked).ok
        /\ Canonical(ro.path).ok
        /\ StartsWith(Canonical(ro.path).path, Canonical(locked).path)

ThroughParent(path_str) ==
    Append(Canonicalize(fs, Parent(ParsePath(path_str))).path,
           FileName(ParsePath(path_str)))

ParentResolves(path_str) ==
    /\ HasParent(ParsePath(path_str))
    /\ Canonicalize(fs, Parent(ParsePath(path_str))).ok

Covered(canonical_path) ==
    \E allowed_dir \in allowed_dirs : StartsWith(canonical_path, allowed_dir)

\* C31 as stated: a validate_path call on a target that does not resolve fails
\* with IoError when the parent does not resolve or there is none, with
\* InvalidPath when the parent resolves and there is no final segment, and
\* otherwise goes on with <canonical parent>/<name>.
C31_AsStated ==
    (last.op = "validate" /\ ~Canonical(last.path).ok)
        => IF ~ParentResolves(last.path) THEN last.kind = "IoError"
           ELSE IF ~HasFileName(ParsePath(last.path))
                THEN last.kind = "InvalidPath"
           ELSE IF enforce_allowlist /\ ~Covered(ThroughParent(last.path))
                THEN last.kind \in {"NoAllowedDirectories", "NotInAllowedDirectory"}
           ELSE last.kind = "Ok" /\ last.out = ThroughParent(last.path)

\* C31 (amended): a validate_path call on a target that does not resolve is
\* rejected with PathTraversal when step 1 rejects the path, which it does for
\* every path without a final segment, so that InvalidPath is never returned;
\* otherwise it fails with IoError when the parent does not resolve or there is
\* none, and else the allowlist is checked against <canonical parent>/<name>,
\* links in the ancestors resolved, and that path is returned.
C31_FallbackToParent ==
    (last.op = "validate" /\ ~Canonical(last.path).ok)
        => /\ last.kind # "InvalidPath"
           /\ IF check_path_traversal(last.path) THEN last.kind = "PathTraversal"
              ELSE IF ~ParentResolves(last.path) THEN last.kind = "IoError"
              ELSE /\ HasFileName(ParsePath(last.path))
                   /\ IF enforce_allowlist /\ ~Covered(ThroughParent(last.path))
                      THEN last.kind \in {"NoAllowedDirectories",
                                          "NotInAllowedDirectory"}
                      ELSE /\ last.kind = "Ok"
                           /\ last.out = ThroughParent(last.path)

\* /A/l/n with /A/l a link to /B and /B allowed: accepted as /B/n.
C31_Witness ==
    /\ last.op = "validate"
    /\ last.path = PathString(TRUE, <<nA, nL, nN>>)
    /\ enforce_allowlist
    /\ allowed_dirs = {<<nB>>}
    /\ last.kind = "Ok"
    /\ last.out = <<nB, nN>>

\* ------------------------------------------------------------------ C35

FileEntries == { e \in allowed_dirs : fs[e].kind = "file" }

Beside(canonical_path, entry) ==
    /\ canonical_path # entry
    /\ canonical_path # << >>
    /\ SubSeq(canonical_path, 1, Len(canonical_path) - 1)
         = SubSeq(entry, 1, Len(entry) - 1)

\* C35: with enforcement on and an entry of the allowlist that is a regular
\* file, a path that resolves to that file is accepted, and a path that
\* resolves to another name in the same directory is rejected with
\* NotInAllowedDirectory unless another entry covers it.
C35_FileEntryCoversItself ==
    (/\ last.op = "validate"
     /\ enforce_allowlist
     /\ ~check_path_traversal(last.path)
     /\ canonical_of(fs, last.path).kind = "Ok")
        => \A entry \in FileEntries :
             LET canonical == canonical_of(fs, last.path).out
             IN  /\ canonical = entry
                    => last.kind = "Ok" /\ last.out = entry
                 /\ (Beside(canonical, entry)
                       /\ ~\E other \in allowed_dirs \ {entry} :
                             StartsWith(canonical, other))
                    => last.kind = "NotInAllowedDirectory"

\* /A/f is the only entry and /A/n, not yet created beside it, is rejected.
C35_Witness ==
    /\ last.op = "validate"
    /\ enforce_allowlist
    /\ allowed_dirs = {<<nA, nF>>}
    /\ last.path = PathString(TRUE, <<nA, nN>>)
    /\ last.kind = "NotInAllowedDirectory"

\* ------------------------------------------------------------------ C36

\* C36: a validate_path call leaves the allowlist as it is; with enforcement
\* on, a successful add_allowed_directory call keeps every entry, keeps every
\* path that was accepted accepted with the same canonical path, and when the
\* canonical form of its argument was already an entry it leaves the allowlist
\* and its count as they are.
C36_GrowthKeepsAccess ==
    [][ /\ last'.op = "validate" => allowed_dirs' = allowed_dirs
        /\ (last'.op = "add" /\ last'.kind = "Ok" /\ enforce_allowlist)
             => /\ allowed_dirs \subseteq allowed_dirs'
                /\ \A path_str \in TargetInputs :
                     validate_path(fs, allowed_dirs, TRUE, path_str).kind = "Ok"
                       => validate_path(fs', allowed_dirs', TRUE, path_str)
                            = validate_path(fs, allowed_dirs, TRUE, path_str)
                /\ last'.out \in allowed_dirs
                     => /\ allowed_dirs' = allowed_dirs
                        /\ allowed_directory_count' = allowed_directory_count
      ]_vars

\* /B and /A are entries and /A/l, a link to /B, has just been added: two
\* entries still.
C36_Witness ==
    /\ last.op = "add"
    /\ last.kind = "Ok"
    /\ enforce_allowlist
    /\ last.path = PathString(TRUE, <<nA, nL>>)
    /\ last.out = <<nB>>
    /\ allowed_dirs = {<<nA>>, <<nB>>}

\* ------------------------------------------------------------------ C33

\* The canonical forms of the listed directories that resolve.
ResolvedOf(directories) ==
    { Canonical(d).path : d \in { x \in Range(directories) : Canonical(x).ok } }

C32_ReadsOnlyValidated ==
    \A path \in rd.read :
        validate_path(fs, rd.dirs, enforce_allowlist, PathString(TRUE, path)).kind = "Ok"

\* The same for the messages that validate each path they read.
C32_AnalyzeAndReportValidate ==
    rd.action \in {"analyze", "report"} => rd.read \subseteq rd.accepted

\* ------------------------------------------------------------------ C37

\* The id the response to a line carries.
ExpectedId(line) == IF line.kind = "message" THEN line.id ELSE "unknown"

\* The ids of the responses to the lines, in order; an empty line has none.
RECURSIVE ExpectedIds(_)
ExpectedIds(lines) ==
    IF lines = << >> THEN << >>
    ELSE (IF Head(lines).kind = "empty" THEN << >> ELSE <<ExpectedId(Head(lines))>>)
            \o ExpectedIds(Tail(lines))

\* C37: while the server writes without error, what it has written is the
\* ready response and then one response for every non-empty line it has read,
\* in the order of the lines, with the id of the request or "unknown"; an
\* unknown action and a line that is no message are answered with an error, a
\* shutdown with a success, and only the end of the input ends the loop.
C37_LockStep ==
    srv.pc \in {"loop", "done"}
        => /\ [i \in 1..Len(srv.out) |-> srv.out[i].id]
                = <<"init">> \o ExpectedIds(srv.lines)
           /\ \A i \in 1..Len(srv.lines) :
                /\ srv.lines[i].kind = "message" /\ srv.lines[i].action = "bogus"
                     => ~srv.out[1 + Len(ExpectedIds(SubSeq(srv.lines, 1, i)))].success
                /\ srv.lines[i].kind = "message" /\ srv.lines[i].action = "shutdown"
                     => srv.out[1 + Len(ExpectedIds(SubSeq(srv.lines, 1, i)))].success

\* ------------------------------------------------------------------ C38

\* C38: whatever navigation and filter calls were made on the App, the
\* selection is an index of the filtered list when that has entries and 0 when
\* it has none; and a move_selection by one from the last entry down, or from
\* the first entry up, leaves the selection there, any other moves it by one.
C38_SelectionValid ==
    /\ [](IF tui.filtered_entries = << >> THEN tui.selected = 0
          ELSE tui.selected \in 0..(Len(tui.filtered_entries) - 1))
    /\ [][ (tui'.op = "move_selection" /\ tui.filtered_entries # << >>)
             => tui'.selected =
                  IF tui'.arg > 0
                  THEN (IF tui.selected = Len(tui.filtered_entries) - 1
                        THEN tui.selected ELSE tui.selected + 1)
                  ELSE (IF tui.selected = 0 THEN 0 ELSE tui.selected - 1)
         ]_vars

\* The filter has left three of five entries and the selection is on the last.
C38_Witness ==
    /\ tui.op = "cycle_filter"
    /\ Len(tui.all_entries) = 5
    /\ Len(tui.filtered_entries) = 3
    /\ tui.selected = 2

\* ------------------------------------------------------------------ C39

\* C39: after a navigation call or set_viewport_height, whatever the height of
\* the terminal, the program has not panicked and
\* scroll_offset <= selected < scroll_offset + viewport_height.
C39_SelectedInViewport ==
    tui.op \in {"move_selection", "page_up", "page_down", "goto_start", "goto_end",
                "set_viewport_height"}
        => /\ ~tui.panicked
           /\ tui.scroll_offset <= tui.selected
           /\ tui.selected < tui.scroll_offset + tui.viewport_height

\* The same with at least one row to show the list in, after any call.
C39_InViewportOfSomeRows ==
    tui.viewport_height > 0
        => /\ ~tui.panicked
           /\ tui.scroll_offset <= tui.selected
           /\ tui.selected < tui.scroll_offset + tui.viewport_height

====
